---- MODULE Spec2Model ----
(***************************************************************************)
(* The MessageBus class of src/src/utils/MessageBus.backup.mjs: the four   *)
(* stores of the constructor, the registration operations, the component   *)
(* tree, the route finder and the send / broadcast operations.             *)
(*                                                                         *)
(* JavaScript values are modelled as follows.                              *)
(*   - a component id is a string; Null stands for null / undefined;      *)
(*   - componentRegistry (a plain object) and addressedHandlers (a Map)    *)
(*     both iterate in key insertion order, so each is a sequence of       *)
(*     entries in that order, with at most one entry per key;              *)
(*   - a handler is named by a string; calling it is recorded as an entry  *)
(*     of out.calls, the list of handler invocations of the last call;     *)
(*   - out is the observable outcome of the last call on the bus: the      *)
(*     operation, its arguments, its return value, the handler calls it    *)
(*     made, and whether it failed to return (unbounded recursion).        *)
(***************************************************************************)
EXTENDS Integers, Sequences, FiniteSets, TLC

VARIABLES
  handlers,            \* this.handlers: command -> list of {handler, context}
  globalHandlers,      \* this.globalHandlers: list of {handler, context}
  addressedHandlers,   \* this.addressedHandlers: Map componentID -> handlerInfo
  componentRegistry,   \* this.componentRegistry: id -> {parentId, children}
  nAttach,             \* number of registerComponentInTree calls made so far
  out                  \* outcome of the last call

vars == <<handlers, globalHandlers, addressedHandlers, componentRegistry, nAttach, out>>
stores == <<handlers, globalHandlers, addressedHandlers, componentRegistry>>

(***************************************************************************)
(* Bounds of the model.                                                    *)
(***************************************************************************)
MaxAttach == 3     \* registerComponentInTree calls in a run of an undisciplined caller
MaxDepth == 6      \* nested calls after which a recursion is reported as not returning
MaxList == 3       \* handlers registered on one command key
MaxGlobal == 2     \* global handlers
MaxTargets == 3    \* identities in the list given to sendUp
MaxRoute == 3      \* identities in the route given to sendViaRoute
MaxFill == 4       \* entries in the four stores together, where all four are filled
MaxListed == 1     \* targets given to sendUp, where every send is tried on a tree
MaxHops == 2       \* ids in the route given to sendViaRoute, there
MaxInvoke == 2     \* invocations of one returned unregister function

Null == "null"
Ids == {"A", "B", "C", "D"}          \* identities used by the callers
FreeIds == {"A", "B", "C"}           \* identities an undisciplined caller attaches
HandlerInfos == {"h1", "h2"}         \* addressed {handler, context} pairs
IdRank(id) == CHOOSE n \in 1..4 : id = <<"A", "B", "C", "D">>[n]
PING == "PING"                       \* the type of the message sent
Commands == {"Edit:Copy", "Edit:Paste"}
\* command and global callbacks, with their contexts; a callback returns
\* true (handled) or false
Callbacks == {"no1", "yes1"}
Contexts == {"ctx"}
Returns(handler) == handler = "yes1"

(***************************************************************************)
(* Insertion-ordered keyed stores (object / Map).                          *)
(***************************************************************************)
Has(store, key) == \E i \in 1..Len(store) : store[i].id = key
IndexOf(store, key) == CHOOSE i \in 1..Len(store) : store[i].id = key
Get(store, key) == store[IndexOf(store, key)]
\* store[key] = entry: an existing key keeps its place, a new key goes last
Set(store, entry) ==
  IF Has(store, entry.id)
  THEN [store EXCEPT ![IndexOf(store, entry.id)] = entry]
  ELSE Append(store, entry)
RemoveAt(s, i) == [j \in 1..(Len(s) - 1) |-> IF j < i THEN s[j] ELSE s[j + 1]]
Delete(store, key) ==
  IF Has(store, key) THEN RemoveAt(store, IndexOf(store, key)) ELSE store
\* Array.prototype.indexOf, 1-based; 0 stands for -1
ArrayIndexOf(s, x) ==
  IF \E i \in 1..Len(s) : s[i] = x
  THEN CHOOSE i \in 1..Len(s) : s[i] = x /\ \A j \in 1..(i - 1) : s[j] # x
  ELSE 0
Keys(store) == {store[i].id : i \in 1..Len(store)}

(***************************************************************************)
(* The outcome record.                                                     *)
(***************************************************************************)
\* op: the method; a, b: its identity arguments; pre: what the call replaced
\* (registerAddressedHandler: the handlerInfo the id had before, if any)
Outcome(op, a, b, pre, ret, calls, diverged) ==
  [op |-> op, a |-> a, b |-> b, pre |-> pre, ret |-> ret, calls |-> calls,
   diverged |-> diverged]
NoCalls == <<>>
\* one handler invocation: handler.call(context, message, data, senderId)
Call(target, handlerInfo, type, from, direction, route, senderId) ==
  [target |-> target, handler |-> handlerInfo, type |-> type, from |-> from,
   direction |-> direction, route |-> route, senderId |-> senderId]
NoField == "absent"   \* a field the data object does not have
\* the value a call returned; none when it did not return
Returned(r) == IF r.diverged THEN NoField ELSE r.ret

(***************************************************************************)
(* constructor                                                             *)
(***************************************************************************)
Init ==
  /\ handlers = <<>>
  /\ globalHandlers = <<>>
  /\ addressedHandlers = <<>>
  /\ componentRegistry = <<>>
  /\ nAttach = 0
  /\ out = Outcome("constructor", Null, Null, NoField, Null, NoCalls, FALSE)

(***************************************************************************)
(* registerAddressedHandler and the unregister function it returns         *)
(***************************************************************************)
\* the ids that are falsy: null and the empty string
FalsyIds == {Null, ""}
\* a test for null alone
FalsyNullOnly(componentID) == componentID = Null
\* !componentID
Falsy(componentID) == componentID \in FalsyIds
\* a registration that keeps the handler an id already has
registerAddressedHandlerKeepFirst(addr, componentID, handlerInfo) ==
  IF Has(addr, componentID) THEN addr
  ELSE Append(addr, [id |-> componentID, handler |-> handlerInfo])
registerAddressedHandler(addr, componentID, handlerInfo) ==
  Set(addr, [id |-> componentID, handler |-> handlerInfo])

unregisterAddressed(addr, componentID) ==
  IF Has(addr, componentID) THEN Delete(addr, componentID) ELSE addr

(***************************************************************************)
(* registerComponentInTree / unregisterComponent                           *)
(***************************************************************************)
registerComponentInTree(reg, componentId, parentId) ==
  LET reg1 == Set(reg, [id |-> componentId, parentId |-> parentId, children |-> <<>>])
  IN IF parentId # Null /\ Has(reg1, parentId)
     THEN [reg1 EXCEPT ![IndexOf(reg1, parentId)].children = Append(@, componentId)]
     ELSE reg1

\* a detach that deletes the entry and leaves the parent's list as it is
unregisterComponentListed(reg, componentId) == Delete(reg, componentId)
unregisterComponent(reg, componentId) ==
  IF ~Has(reg, componentId) THEN reg
  ELSE LET component == Get(reg, componentId)
           reg1 ==
             IF component.parentId # Null /\ Has(reg, component.parentId)
             THEN LET p == IndexOf(reg, component.parentId)
                      index == ArrayIndexOf(reg[p].children, componentId)
                  IN IF index # 0
                     THEN [reg EXCEPT ![p].children = RemoveAt(@, index)]
                     ELSE reg
             ELSE reg
       IN Delete(reg1, componentId)

(***************************************************************************)
(* sendMessage: the result is the return value and the handler calls made  *)
(***************************************************************************)
\* a sendMessage that calls the handler and forgets to report it
sendMessageNoReport(addr, targetID, type, from, direction, route, senderId) ==
  IF Has(addr, targetID)
  THEN [ret |-> FALSE,
        calls |-> <<Call(targetID, Get(addr, targetID).handler, type, from,
                         direction, route, senderId)>>]
  ELSE [ret |-> FALSE, calls |-> NoCalls]
sendMessage(addr, targetID, type, from, direction, route, senderId) ==
  IF Has(addr, targetID)
  THEN [ret |-> TRUE,
        calls |-> <<Call(targetID, Get(addr, targetID).handler, type, from,
                         direction, route, senderId)>>]
  ELSE [ret |-> FALSE, calls |-> NoCalls]

(***************************************************************************)
(* message.type || 'MESSAGE'                                               *)
(***************************************************************************)
MsgType(message) == IF message = NoField THEN "MESSAGE" ELSE message

(***************************************************************************)
(* broadcastToHandlers: every entry of the Map, in its iteration order,    *)
(* except the excluded ids; data is passed through as given                *)
(***************************************************************************)
RECURSIVE handlersLoop(_, _, _, _, _)
\* a loop that ends at the first excluded id: break where the code has continue
handlersLoopBreak(addr, i, message, senderId, excludeSet) ==
  IF i > Len(addr) THEN NoCalls
  ELSE IF addr[i].id \in excludeSet THEN NoCalls
       ELSE <<Call(addr[i].id, addr[i].handler, message, NoField, NoField, NoField, senderId)>>
            \o handlersLoop(addr, i + 1, message, senderId, excludeSet)
handlersLoop(addr, i, message, senderId, excludeSet) ==
  IF i > Len(addr) THEN NoCalls
  ELSE IF addr[i].id \in excludeSet
       THEN handlersLoop(addr, i + 1, message, senderId, excludeSet)
       ELSE <<Call(addr[i].id, addr[i].handler, message, NoField, NoField, NoField, senderId)>>
            \o handlersLoop(addr, i + 1, message, senderId, excludeSet)

broadcastToHandlers(addr, message, senderId, excludeIDs) ==
  LET calls == handlersLoop(addr, 1, message, senderId, excludeIDs)
  IN [ret |-> Len(calls), calls |-> calls, diverged |-> FALSE]

(***************************************************************************)
(* broadcast.  The source of sendToAllExceptSender lacks the brace that    *)
(* closes `if (delivered) {`; it is read here as its indentation and its   *)
(* documentation give it: the sender alone is skipped, the children of     *)
(* every visited component are recursed into, and count is returned.       *)
(* A recursion nested deeper than MaxDepth revisits a component (there are *)
(* fewer components than that): in JavaScript it never returns normally,   *)
(* which the result reports as diverged, with the calls made until then.   *)
(***************************************************************************)
\* a scan that keeps the last component with no parent
FindRootIdLast(reg) ==
  IF \E i \in 1..Len(reg) : reg[i].parentId = Null
  THEN reg[CHOOSE i \in 1..Len(reg) :
             reg[i].parentId = Null /\ \A j \in (i + 1)..Len(reg) : reg[j].parentId # Null].id
  ELSE Null
FindRootId(reg) ==
  IF \E i \in 1..Len(reg) : reg[i].parentId = Null
  THEN reg[CHOOSE i \in 1..Len(reg) :
             reg[i].parentId = Null /\ \A j \in 1..(i - 1) : reg[j].parentId # Null].id
  ELSE Null

\* a broadcast that has lost the test on the sender
SkipSenderNever(componentId, fromComponentId) == FALSE
\* the guard of the delivery inside sendToAllExceptSender
SkipSender(componentId, fromComponentId) == componentId = fromComponentId

RECURSIVE sendToAllExceptSender(_, _, _, _, _, _)
RECURSIVE forEachChild(_, _, _, _, _, _, _)
\* sendToAllExceptSender with the recursion inside the test on the sender:
\* the sender's subtree is skipped with the sender
sendToAllExceptSenderSubtree(reg, addr, fromComponentId, message, componentId, depth) ==
  IF depth = 0 THEN [ret |-> 0, calls |-> NoCalls, diverged |-> TRUE]
  ELSE IF componentId = fromComponentId
       THEN [ret |-> 0, calls |-> NoCalls, diverged |-> FALSE]
  ELSE
    LET own == sendMessage(addr, componentId, MsgType(message), fromComponentId,
                           NoField, NoField, fromComponentId)
        count == IF own.ret THEN 1 ELSE 0
        below == IF Has(reg, componentId) /\ Len(Get(reg, componentId).children) > 0
                 THEN forEachChild(reg, addr, fromComponentId, message,
                                   Get(reg, componentId).children, 1, depth - 1)
                 ELSE [ret |-> 0, calls |-> NoCalls, diverged |-> FALSE]
    IN [ret |-> count + below.ret, calls |-> own.calls \o below.calls,
        diverged |-> below.diverged]
sendToAllExceptSender(reg, addr, fromComponentId, message, componentId, depth) ==
  IF depth = 0 THEN [ret |-> 0, calls |-> NoCalls, diverged |-> TRUE]
  ELSE
    LET own == IF SkipSender(componentId, fromComponentId)
               THEN [ret |-> FALSE, calls |-> NoCalls]
               ELSE sendMessage(addr, componentId, MsgType(message), fromComponentId,
                                NoField, NoField, fromComponentId)
        count == IF own.ret THEN 1 ELSE 0
        below == IF Has(reg, componentId) /\ Len(Get(reg, componentId).children) > 0
                 THEN forEachChild(reg, addr, fromComponentId, message,
                                   Get(reg, componentId).children, 1, depth - 1)
                 ELSE [ret |-> 0, calls |-> NoCalls, diverged |-> FALSE]
    IN [ret |-> count + below.ret, calls |-> own.calls \o below.calls,
        diverged |-> below.diverged]
forEachChild(reg, addr, fromComponentId, message, children, i, depth) ==
  IF i > Len(children) THEN [ret |-> 0, calls |-> NoCalls, diverged |-> FALSE]
  ELSE LET first == sendToAllExceptSender(reg, addr, fromComponentId, message,
                                          children[i], depth)
       IN IF first.diverged THEN first
          ELSE LET rest == forEachChild(reg, addr, fromComponentId, message,
                                        children, i + 1, depth)
               IN [ret |-> first.ret + rest.ret, calls |-> first.calls \o rest.calls,
                   diverged |-> rest.diverged]

broadcast(reg, addr, fromComponentId, message) ==
  LET rootId == FindRootId(reg)
  IN IF rootId = Null THEN [ret |-> 0, calls |-> NoCalls, diverged |-> FALSE]
     ELSE sendToAllExceptSender(reg, addr, fromComponentId, message, rootId, MaxDepth)

(***************************************************************************)
(* broadcast with a handler that calls the bus.  DetachSelf is a handler   *)
(* whose body is bus.unregisterComponent(its own id).  The registry is     *)
(* then changed while broadcast walks it, so the walk carries it along:    *)
(* the entry of a component is read after its handler has run (line 237),  *)
(* and forEach goes by index over the children array itself, up to the     *)
(* length the array had when forEach was called, passing over an index     *)
(* the array no longer has.  A handler here detaches its own node only,    *)
(* so the array forEach is walking stays the children of the parent.       *)
(***************************************************************************)
DetachSelf == "detachSelf"
\* the registry after the handler of componentId, if it has one, has run
AfterHandler(reg, addr, componentId) ==
  IF Has(addr, componentId) /\ Get(addr, componentId).handler = DetachSelf
  THEN unregisterComponent(reg, componentId)
  ELSE reg

RECURSIVE sendToAllExceptSenderLive(_, _, _, _, _, _)
RECURSIVE forEachLive(_, _, _, _, _, _, _, _)
sendToAllExceptSenderLive(reg, addr, fromComponentId, message, componentId, depth) ==
  IF depth = 0 THEN [reg |-> reg, ret |-> 0, calls |-> NoCalls, diverged |-> TRUE]
  ELSE
    LET skip == SkipSender(componentId, fromComponentId)
        own == IF skip THEN [ret |-> FALSE, calls |-> NoCalls]
               ELSE sendMessage(addr, componentId, MsgType(message), fromComponentId,
                                NoField, NoField, fromComponentId)
        reg1 == IF skip THEN reg ELSE AfterHandler(reg, addr, componentId)
        count == IF own.ret THEN 1 ELSE 0
        below == IF Has(reg1, componentId) /\ Len(Get(reg1, componentId).children) > 0
                 THEN forEachLive(reg1, addr, fromComponentId, message, componentId, 1,
                                  Len(Get(reg1, componentId).children), depth - 1)
                 ELSE [reg |-> reg1, ret |-> 0, calls |-> NoCalls, diverged |-> FALSE]
    IN [reg |-> below.reg, ret |-> count + below.ret, calls |-> own.calls \o below.calls,
        diverged |-> below.diverged]
\* forEach over the children of parentId: k is the index, len the length
\* of the array at the start
forEachLive(reg, addr, fromComponentId, message, parentId, k, len, depth) ==
  IF k > len \/ ~Has(reg, parentId) \/ k > Len(Get(reg, parentId).children)
  THEN [reg |-> reg, ret |-> 0, calls |-> NoCalls, diverged |-> FALSE]
  ELSE LET first == sendToAllExceptSenderLive(reg, addr, fromComponentId, message,
                                              Get(reg, parentId).children[k], depth)
       IN IF first.diverged THEN first
          ELSE LET rest == forEachLive(first.reg, addr, fromComponentId, message,
                                       parentId, k + 1, len, depth)
               IN [reg |-> rest.reg, ret |-> first.ret + rest.ret,
                   calls |-> first.calls \o rest.calls, diverged |-> rest.diverged]

broadcastLive(reg, addr, fromComponentId, message) ==
  LET rootId == FindRootId(reg)
  IN IF rootId = Null THEN [reg |-> reg, ret |-> 0, calls |-> NoCalls, diverged |-> FALSE]
     ELSE sendToAllExceptSenderLive(reg, addr, fromComponentId, message, rootId, MaxDepth)
(***************************************************************************)
(* broadcastUp.  The class body defines broadcastUp twice (lines 510 and   *)
(* 541); a later method definition replaces an earlier one of the same     *)
(* name, so the method the bus has is the second: from a node to all its   *)
(* ancestors.  The first (to the children, pruned) is unreachable.         *)
(* More than MaxDepth iterations of the while loop mean a cycle of         *)
(* parentId: the loop never ends.                                          *)
(***************************************************************************)
\* the loop leaving at the first ancestor that did not accept
RECURSIVE ancestorsLoopStop(_, _, _, _, _, _)
ancestorsLoopStop(reg, addr, fromComponentId, message, currentId, fuel) ==
  IF currentId = Null THEN [ret |-> 0, calls |-> NoCalls, diverged |-> FALSE]
  ELSE IF fuel = 0 THEN [ret |-> 0, calls |-> NoCalls, diverged |-> TRUE]
  ELSE
    LET own == sendMessage(addr, currentId, MsgType(message), fromComponentId,
                           NoField, NoField, fromComponentId)
    IN IF ~own.ret \/ ~Has(reg, currentId)
       THEN [ret |-> IF own.ret THEN 1 ELSE 0, calls |-> own.calls, diverged |-> FALSE]
       ELSE LET rest == ancestorsLoopStop(reg, addr, fromComponentId, message,
                                          Get(reg, currentId).parentId, fuel - 1)
            IN [ret |-> 1 + rest.ret, calls |-> own.calls \o rest.calls,
                diverged |-> rest.diverged]
RECURSIVE ancestorsLoop(_, _, _, _, _, _)
ancestorsLoop(reg, addr, fromComponentId, message, currentId, fuel) ==
  IF currentId = Null THEN [ret |-> 0, calls |-> NoCalls, diverged |-> FALSE]
  ELSE IF fuel = 0 THEN [ret |-> 0, calls |-> NoCalls, diverged |-> TRUE]
  ELSE
    LET own == sendMessage(addr, currentId, MsgType(message), fromComponentId,
                           NoField, NoField, fromComponentId)
        count == IF own.ret THEN 1 ELSE 0
    IN IF ~Has(reg, currentId)
       THEN [ret |-> count, calls |-> own.calls, diverged |-> FALSE]
       ELSE LET rest == ancestorsLoop(reg, addr, fromComponentId, message,
                                      Get(reg, currentId).parentId, fuel - 1)
            IN [ret |-> count + rest.ret, calls |-> own.calls \o rest.calls,
                diverged |-> rest.diverged]

broadcastUp(reg, addr, fromComponentId, message) ==
  IF ~Has(reg, fromComponentId) THEN [ret |-> 0, calls |-> NoCalls, diverged |-> FALSE]
  ELSE ancestorsLoop(reg, addr, fromComponentId, message,
                     Get(reg, fromComponentId).parentId, MaxDepth)

(***************************************************************************)
(* sendDown: to the parent, and from the parent on while the delivery      *)
(* succeeds.  The recursive call is sendDown(component.parentId, message): *)
(* each hop is stamped with the node below it as from and senderId.  The   *)
(* value returned is that of the first delivery.  On a cycle of parentId   *)
(* whose nodes all have handlers the recursion never returns.              *)
(***************************************************************************)
\* a sendDown that goes on whether the parent accepted or not
RECURSIVE sendDownAll(_, _, _, _, _)
sendDownAll(reg, addr, fromComponentId, message, depth) ==
  IF depth = 0 THEN [ret |-> FALSE, calls |-> NoCalls, diverged |-> TRUE]
  ELSE IF ~Has(reg, fromComponentId) \/ Get(reg, fromComponentId).parentId = Null
       THEN [ret |-> FALSE, calls |-> NoCalls, diverged |-> FALSE]
  ELSE
    LET parentId == Get(reg, fromComponentId).parentId
        delivered == sendMessage(addr, parentId, MsgType(message), fromComponentId,
                                 "down", NoField, fromComponentId)
        rest == sendDownAll(reg, addr, parentId, message, depth - 1)
    IN [ret |-> delivered.ret, calls |-> delivered.calls \o rest.calls,
        diverged |-> rest.diverged]
\* a sendDown stamping every hop with the component the call started from,
\* as broadcastUp does
RECURSIVE sendDownFromOrigin(_, _, _, _, _, _)
sendDownFromOrigin(reg, addr, origin, fromComponentId, message, depth) ==
  IF depth = 0 THEN [ret |-> FALSE, calls |-> NoCalls, diverged |-> TRUE]
  ELSE IF ~Has(reg, fromComponentId) \/ Get(reg, fromComponentId).parentId = Null
       THEN [ret |-> FALSE, calls |-> NoCalls, diverged |-> FALSE]
  ELSE
    LET parentId == Get(reg, fromComponentId).parentId
        delivered == sendMessage(addr, parentId, MsgType(message), origin,
                                 "down", NoField, origin)
    IN IF delivered.ret
       THEN LET rest == sendDownFromOrigin(reg, addr, origin, parentId, message, depth - 1)
            IN [ret |-> delivered.ret, calls |-> delivered.calls \o rest.calls,
                diverged |-> rest.diverged]
       ELSE [ret |-> delivered.ret, calls |-> delivered.calls, diverged |-> FALSE]
sendDownOrigin(reg, addr, fromComponentId, message, depth) ==
  sendDownFromOrigin(reg, addr, fromComponentId, fromComponentId, message, depth)
RECURSIVE sendDown(_, _, _, _, _)
\* a sendDown without the test on component: for a sender that is not in
\* the registry it reads parentId of undefined and throws
sendDownNoGuard(reg, addr, fromComponentId, message, depth) ==
  IF depth = 0 \/ ~Has(reg, fromComponentId)
  THEN [ret |-> FALSE, calls |-> NoCalls, diverged |-> TRUE]
  ELSE IF Get(reg, fromComponentId).parentId = Null
       THEN [ret |-> FALSE, calls |-> NoCalls, diverged |-> FALSE]
  ELSE
    LET parentId == Get(reg, fromComponentId).parentId
        delivered == sendMessage(addr, parentId, MsgType(message), fromComponentId,
                                 "down", NoField, fromComponentId)
    IN IF delivered.ret
       THEN LET rest == sendDown(reg, addr, parentId, message, depth - 1)
            IN [ret |-> delivered.ret, calls |-> delivered.calls \o rest.calls,
                diverged |-> rest.diverged]
       ELSE [ret |-> delivered.ret, calls |-> delivered.calls, diverged |-> FALSE]
sendDown(reg, addr, fromComponentId, message, depth) ==
  IF depth = 0 THEN [ret |-> FALSE, calls |-> NoCalls, diverged |-> TRUE]
  ELSE IF ~Has(reg, fromComponentId) \/ Get(reg, fromComponentId).parentId = Null
       THEN [ret |-> FALSE, calls |-> NoCalls, diverged |-> FALSE]
  ELSE
    LET parentId == Get(reg, fromComponentId).parentId
        delivered == sendMessage(addr, parentId, MsgType(message), fromComponentId,
                                 "down", NoField, fromComponentId)
    IN IF delivered.ret
       THEN LET rest == sendDown(reg, addr, parentId, message, depth - 1)
            IN [ret |-> delivered.ret, calls |-> delivered.calls \o rest.calls,
                diverged |-> rest.diverged]
       ELSE [ret |-> delivered.ret, calls |-> delivered.calls, diverged |-> FALSE]

(***************************************************************************)
(* Routes.  A route is a JavaScript string, the ids joined by ':', or      *)
(* null.  A string is modelled as the sequence of its characters (the ids  *)
(* of the model are one character long) and a nullable string as a record. *)
(***************************************************************************)
NullStr == [isNull |-> TRUE, s |-> <<>>]
Str(chars) == [isNull |-> FALSE, s |-> chars]
Chars(id) == <<id>>                              \* the string of an id
Truthy(str) == ~str.isNull /\ str.s # <<>>       \* if (str)
\* the two parts of the template the other way round
ColonSwapped(a, b) == b \o <<":">> \o a
\* `${a}:${b}`
Colon(a, b) == a \o <<":">> \o b
\* Array.prototype.join(':') of an array of ids
RECURSIVE Join(_)
Join(ids) ==
  IF ids = <<>> THEN <<>>
  ELSE IF Len(ids) = 1 THEN Chars(ids[1])
  ELSE Colon(Chars(ids[1]), Join(Tail(ids)))
\* String.prototype.split(':'): the array of the substrings between colons
RECURSIVE Split(_)
Split(chars) ==
  IF \A i \in 1..Len(chars) : chars[i] # ":" THEN <<chars>>
  ELSE LET k == CHOOSE i \in 1..Len(chars) :
                  chars[i] = ":" /\ \A j \in 1..(i - 1) : chars[j] # ":"
       IN <<SubSeq(chars, 1, k - 1)>> \o Split(SubSeq(chars, k + 1, Len(chars)))

ParentOf(reg, id) == IF Has(reg, id) THEN Get(reg, id).parentId ELSE Null

\* _findRouteUp: depth-first through the children; visited is one Set shared
\* by the whole search, so the result carries it.  expanded lists, in order,
\* the components whose children loop was entered.
RECURSIVE _findRouteUp(_, _, _, _, _)
RECURSIVE findRouteUpChildren(_, _, _, _, _, _)
RECURSIVE findRouteUpChildrenOwnSet(_, _, _, _, _, _)
_findRouteUp(reg, sourceId, targetId, visited, currentPath) ==
  IF sourceId \in visited
  THEN [route |-> NullStr, visited |-> visited, expanded |-> <<>>]
  ELSE IF ~Has(reg, sourceId)
       THEN [route |-> NullStr, visited |-> visited \cup {sourceId}, expanded |-> <<>>]
       ELSE LET r == findRouteUpChildren(reg, Get(reg, sourceId).children, 1, targetId,
                                         visited \cup {sourceId}, currentPath)
            IN [r EXCEPT !.expanded = <<sourceId>> \o @]
\* a search in which a child's search adds to a copy of the Set, so that the
\* next child is searched with the Set as it was
findRouteUpChildrenOwnSet(reg, children, i, targetId, visited, currentPath) ==
  IF i > Len(children) THEN [route |-> NullStr, visited |-> visited, expanded |-> <<>>]
  ELSE
    LET childId == children[i]
        childPath == IF currentPath # <<>> THEN Colon(currentPath, Chars(childId))
                     ELSE Chars(childId)
    IN IF childId = targetId
       THEN [route |-> Str(childPath), visited |-> visited, expanded |-> <<>>]
       ELSE LET r == _findRouteUp(reg, childId, targetId, visited, childPath)
            IN IF Truthy(r.route) THEN r
               ELSE LET rest == findRouteUpChildrenOwnSet(reg, children, i + 1, targetId,
                                                          visited, currentPath)
                    IN [rest EXCEPT !.expanded = r.expanded \o @]
findRouteUpChildren(reg, children, i, targetId, visited, currentPath) ==
  IF i > Len(children) THEN [route |-> NullStr, visited |-> visited, expanded |-> <<>>]
  ELSE
    LET childId == children[i]
        childPath == IF currentPath # <<>> THEN Colon(currentPath, Chars(childId))
                     ELSE Chars(childId)
    IN IF childId = targetId
       THEN [route |-> Str(childPath), visited |-> visited, expanded |-> <<>>]
       ELSE LET r == _findRouteUp(reg, childId, targetId, visited, childPath)
            IN IF Truthy(r.route) THEN r
               ELSE LET rest == findRouteUpChildren(reg, children, i + 1, targetId,
                                                    r.visited, currentPath)
                    IN [rest EXCEPT !.expanded = r.expanded \o @]

\* a _findRouteDown that looks at the parent and no further
_findRouteDownParent(reg, sourceId, targetId, depth) ==
  IF Has(reg, sourceId) /\ Get(reg, sourceId).parentId = targetId /\ targetId # Null
  THEN [route |-> Str(Chars(targetId)), diverged |-> FALSE]
  ELSE [route |-> NullStr, diverged |-> FALSE]
\* _findRouteDown: recursion along parentId; on a cycle of parentId that
\* misses the target it never returns
RECURSIVE _findRouteDown(_, _, _, _)
_findRouteDown(reg, sourceId, targetId, depth) ==
  IF depth = 0 THEN [route |-> NullStr, diverged |-> TRUE]
  ELSE IF ~Has(reg, sourceId) \/ Get(reg, sourceId).parentId = Null
       THEN [route |-> NullStr, diverged |-> FALSE]
  ELSE IF Get(reg, sourceId).parentId = targetId
       THEN [route |-> Str(Chars(targetId)), diverged |-> FALSE]
  ELSE _findRouteDown(reg, Get(reg, sourceId).parentId, targetId, depth - 1)

\* _getPathToRoot: the component, then its ancestors; endless on a cycle
RECURSIVE _getPathToRoot(_, _, _)
_getPathToRoot(reg, current, fuel) ==
  IF current = Null THEN [path |-> <<>>, diverged |-> FALSE]
  ELSE IF fuel = 0 THEN [path |-> <<>>, diverged |-> TRUE]
  ELSE LET rest == _getPathToRoot(reg, ParentOf(reg, current), fuel - 1)
       IN [path |-> <<current>> \o rest.path, diverged |-> rest.diverged]

\* _buildDownRoute: source, its ancestors up to ancestorId, joined by ':'
RECURSIVE buildDownPath(_, _, _)
buildDownPath(reg, current, ancestorId) ==
  IF current = ancestorId THEN [ok |-> TRUE, path |-> <<>>]
  ELSE LET next == ParentOf(reg, current)
       IN IF next = Null THEN [ok |-> FALSE, path |-> <<>>]
          ELSE LET rest == buildDownPath(reg, next, ancestorId)
               IN [ok |-> rest.ok, path |-> <<current>> \o rest.path]
\* a down route that leaves the source out: its ancestors up to ancestorId
_buildDownRouteAbove(reg, sourceId, ancestorId) ==
  IF sourceId = ancestorId THEN Str(Chars(sourceId))
  ELSE LET r == buildDownPath(reg, sourceId, ancestorId)
       IN IF r.ok THEN Str(Join(Tail(r.path) \o <<ancestorId>>)) ELSE NullStr
_buildDownRoute(reg, sourceId, ancestorId) ==
  IF sourceId = ancestorId THEN Str(Chars(sourceId))
  ELSE LET r == buildDownPath(reg, sourceId, ancestorId)
       IN IF r.ok THEN Str(Join(r.path \o <<ancestorId>>)) ELSE NullStr

\* the upPath loop with push in the place of unshift: target first
RECURSIVE upPathLoopPush(_, _, _)
upPathLoopPush(reg, current, commonAncestor) ==
  IF current = commonAncestor THEN <<>>
  ELSE LET next == ParentOf(reg, current)
       IN IF next = Null THEN <<current>>
          ELSE <<current>> \o upPathLoopPush(reg, next, commonAncestor)
\* the upPath loop of _findRouteViaCommonAncestor: target and its ancestors
\* below commonAncestor, topmost first
RECURSIVE upPathLoop(_, _, _)
upPathLoop(reg, current, commonAncestor) ==
  IF current = commonAncestor THEN <<>>
  ELSE LET next == ParentOf(reg, current)
       IN IF next = Null THEN <<current>>
          ELSE upPathLoop(reg, next, commonAncestor) \o <<current>>

_findRouteViaCommonAncestor(reg, sourceId, targetId) ==
  LET sourceToRoot == _getPathToRoot(reg, sourceId, MaxDepth)
      targetToRoot == _getPathToRoot(reg, targetId, MaxDepth)
  IN IF sourceToRoot.diverged \/ targetToRoot.diverged
     THEN [route |-> NullStr, diverged |-> TRUE]
     ELSE
       LET common == {i \in 1..Len(sourceToRoot.path) :
                        \E j \in 1..Len(targetToRoot.path) :
                          targetToRoot.path[j] = sourceToRoot.path[i]}
       IN IF common = {} THEN [route |-> NullStr, diverged |-> FALSE]
          ELSE
            LET commonAncestor ==
                  sourceToRoot.path[CHOOSE i \in common : \A k \in common : i <= k]
                downRoute == _buildDownRoute(reg, sourceId, commonAncestor)
                upPath == upPathLoop(reg, targetId, commonAncestor)
            IN IF ~Truthy(downRoute) THEN [route |-> NullStr, diverged |-> FALSE]
               ELSE IF upPath = <<>> THEN [route |-> downRoute, diverged |-> FALSE]
               ELSE [route |-> Str(Colon(downRoute.s, Join(upPath))),
                     diverged |-> FALSE]

\* a findRoute without the test for source and target being the same
findRouteNoSame(reg, sourceId, targetId) ==
  LET upRoute == _findRouteUp(reg, sourceId, targetId, {}, <<>>).route
  IN IF Truthy(upRoute) THEN [route |-> upRoute, diverged |-> FALSE]
     ELSE
       LET downRoute == _findRouteDown(reg, sourceId, targetId, MaxDepth)
       IN IF downRoute.diverged THEN downRoute
          ELSE IF Truthy(downRoute.route) THEN downRoute
          ELSE _findRouteViaCommonAncestor(reg, sourceId, targetId)
findRoute(reg, sourceId, targetId) ==
  IF sourceId = targetId THEN [route |-> Str(<<>>), diverged |-> FALSE]
  ELSE
    LET upRoute == _findRouteUp(reg, sourceId, targetId, {}, <<>>).route
    IN IF Truthy(upRoute) THEN [route |-> upRoute, diverged |-> FALSE]
       ELSE
         LET downRoute == _findRouteDown(reg, sourceId, targetId, MaxDepth)
         IN IF downRoute.diverged THEN downRoute
            ELSE IF Truthy(downRoute.route) THEN downRoute
            ELSE _findRouteViaCommonAncestor(reg, sourceId, targetId)

(***************************************************************************)
(* sendUp.  targetComponentIds is an array of ids or a string, which is    *)
(* split at the colons; a part of a string is an id or, between two        *)
(* colons or in the empty string, the empty string.                        *)
(***************************************************************************)
IdOf(part) == IF part = <<>> THEN "" ELSE part[1]
IdArray(v) == [isString |-> FALSE, v |-> v]
IdString(chars) == [isString |-> TRUE, v |-> chars]
TargetIds(targetComponentIds) ==
  IF targetComponentIds.isString
  THEN LET parts == Split(targetComponentIds.v)
       IN [i \in 1..Len(parts) |-> IdOf(parts[i])]
  ELSE targetComponentIds.v

\* a loop that leaves at the first target that accepted
RECURSIVE forEachTargetSome(_, _, _, _, _)
forEachTargetSome(addr, fromComponentId, ids, i, message) ==
  IF i > Len(ids) THEN [ret |-> FALSE, calls |-> NoCalls]
  ELSE
    LET delivered == sendMessage(addr, ids[i], MsgType(message), fromComponentId,
                                 "up", NoField, fromComponentId)
    IN IF delivered.ret THEN delivered
       ELSE forEachTargetSome(addr, fromComponentId, ids, i + 1, message)
RECURSIVE forEachTarget(_, _, _, _, _)
forEachTarget(addr, fromComponentId, ids, i, message) ==
  IF i > Len(ids) THEN [ret |-> FALSE, calls |-> NoCalls]
  ELSE
    LET delivered == sendMessage(addr, ids[i], MsgType(message), fromComponentId,
                                 "up", NoField, fromComponentId)
        rest == forEachTarget(addr, fromComponentId, ids, i + 1, message)
    IN [ret |-> delivered.ret \/ rest.ret, calls |-> delivered.calls \o rest.calls]

sendUp(addr, fromComponentId, targetComponentIds, message) ==
  forEachTarget(addr, fromComponentId, TargetIds(targetComponentIds), 1, message)

(***************************************************************************)
(* sendViaRoute: route is a string or null; a falsy route sends nothing.   *)
(***************************************************************************)
\* a sendViaRoute that takes the first part of the route for the target
sendViaRouteFirst(addr, fromComponentId, route, message) ==
  IF ~Truthy(route) THEN [ret |-> FALSE, calls |-> NoCalls]
  ELSE
    LET routeParts == Split(route.s)
        targetId == IdOf(routeParts[1])
    IN sendMessage(addr, targetId, MsgType(message), fromComponentId,
                   IF Len(routeParts) > 1 THEN "route" ELSE "direct", route.s,
                   fromComponentId)
\* a sendViaRoute that delivers at every id of the route, hop by hop
sendViaRouteEveryHop(addr, fromComponentId, route, message) ==
  IF ~Truthy(route) THEN [ret |-> FALSE, calls |-> NoCalls]
  ELSE
    LET routeParts == Split(route.s)
        direction == IF Len(routeParts) > 1 THEN "route" ELSE "direct"
        hop(i) == sendMessage(addr, IdOf(routeParts[i]), MsgType(message),
                              fromComponentId, direction, route.s, fromComponentId)
        upTo[i \in 0..Len(routeParts)] ==
          IF i = 0 THEN NoCalls ELSE upTo[i - 1] \o hop(i).calls
    IN [ret |-> hop(Len(routeParts)).ret, calls |-> upTo[Len(routeParts)]]
sendViaRoute(addr, fromComponentId, route, message) ==
  IF ~Truthy(route) THEN [ret |-> FALSE, calls |-> NoCalls]
  ELSE
    LET routeParts == Split(route.s)
        targetId == IdOf(routeParts[Len(routeParts)])
    IN sendMessage(addr, targetId, MsgType(message), fromComponentId,
                   IF Len(routeParts) > 1 THEN "route" ELSE "direct", route.s,
                   fromComponentId)

(***************************************************************************)
(* registerHandler / registerGlobalHandler and the functions they return   *)
(***************************************************************************)
HandlerInfo(handler, context) == [handler |-> handler, context |-> context]
\* findIndex(h => h.handler === handler && h.context === context), 0 for -1
FindIndex(list, handlerInfo) == ArrayIndexOf(list, handlerInfo)

\* unshift instead of push
registerHandlerFront(hs, command, handlerInfo) ==
  LET hs1 == IF Has(hs, command) THEN hs
             ELSE Append(hs, [id |-> command, list |-> <<>>])
  IN [hs1 EXCEPT ![IndexOf(hs1, command)].list = <<handlerInfo>> \o @]
registerHandler(hs, command, handlerInfo) ==
  LET hs1 == IF Has(hs, command) THEN hs
             ELSE Append(hs, [id |-> command, list |-> <<>>])
  IN [hs1 EXCEPT ![IndexOf(hs1, command)].list = Append(@, handlerInfo)]

unregisterHandler(hs, command, handlerInfo) ==
  IF ~Has(hs, command) THEN hs
  ELSE LET k == IndexOf(hs, command)
           index == FindIndex(hs[k].list, handlerInfo)
           hs1 == IF index # 0 THEN [hs EXCEPT ![k].list = RemoveAt(@, index)] ELSE hs
       IN IF Len(hs1[k].list) = 0 THEN Delete(hs1, command) ELSE hs1

\* unshift instead of push
registerGlobalHandlerFront(gs, handlerInfo) == <<handlerInfo>> \o gs
registerGlobalHandler(gs, handlerInfo) == Append(gs, handlerInfo)

unregisterGlobalHandler(gs, handlerInfo) ==
  LET index == FindIndex(gs, handlerInfo)
  IN IF index # 0 THEN RemoveAt(gs, index) ELSE gs

(***************************************************************************)
(* Dispatch of a command to the command-keyed and the global handlers.     *)
(* MessageBus.backup.mjs registers these handlers and never calls them;    *)
(* the method that does is in MessageBus.mjs, which the test page imports. *)
(* It is modelled from the specification: the handlers of the key in       *)
(* registration order until one returns true, and every global handler in  *)
(* registration order, for every command.                                  *)
(***************************************************************************)
CmdCall(kind, handlerInfo, command) ==
  [kind |-> kind, handler |-> handlerInfo.handler, context |-> handlerInfo.context,
   command |-> command]

RECURSIVE untilHandled(_, _, _)
untilHandled(list, i, command) ==
  IF i > Len(list) THEN NoCalls
  ELSE <<CmdCall("command", list[i], command)>>
       \o (IF Returns(list[i].handler) THEN NoCalls
           ELSE untilHandled(list, i + 1, command))

dispatchCommand(hs, gs, command) ==
  LET keyed == IF Has(hs, command) THEN untilHandled(Get(hs, command).list, 1, command)
               ELSE NoCalls
      global == [i \in 1..Len(gs) |-> CmdCall("global", gs[i], command)]
  IN [ret |-> \E i \in 1..Len(keyed) : Returns(keyed[i].handler),
      calls |-> keyed \o global]

(***************************************************************************)
(* Actions: one per public method of the bus, called by a component.       *)
(***************************************************************************)
\* registerAddressedHandler(componentID, handler, context); a falsy id throws.
\* The caller registers for the ids of idSet, with the handlers of infos.
\* With inOrder it adds new ids in the order of IdRank, so that each set of
\* handlers is built in one Map order only: this is for the callers of the
\* tree operations, which look a handler up by id and never iterate the Map.
RegisterAddressedHandler(idSet, infos, inOrder) ==
  \E componentID \in idSet \cup FalsyIds, handlerInfo \in infos :
    /\ (inOrder /\ ~Falsy(componentID) /\ ~Has(addressedHandlers, componentID)) =>
         \A i \in 1..Len(addressedHandlers) :
           IdRank(addressedHandlers[i].id) < IdRank(componentID)
    /\ IF Falsy(componentID)
       THEN /\ UNCHANGED addressedHandlers
            /\ out' = Outcome("registerAddressedHandler", componentID, handlerInfo,
                              NoField, "Error", NoCalls, FALSE)
       ELSE /\ addressedHandlers' =
                 registerAddressedHandler(addressedHandlers, componentID, handlerInfo)
            /\ out' = Outcome("registerAddressedHandler", componentID, handlerInfo,
                              IF Has(addressedHandlers, componentID)
                              THEN Get(addressedHandlers, componentID).handler
                              ELSE NoField,
                              "unregister", NoCalls, FALSE)
    /\ UNCHANGED <<handlers, globalHandlers, componentRegistry, nAttach>>

\* the function returned by registerAddressedHandler(componentID, ...): it
\* captures componentID alone.  One exists for every id that was registered;
\* for an id with no entry its body does nothing.
UnregisterAddressedHandler ==
  \E componentID \in Ids :
    /\ Has(addressedHandlers, componentID)
    /\ addressedHandlers' = unregisterAddressed(addressedHandlers, componentID)
    /\ out' = Outcome("unregisterAddressed", componentID, Null, NoField, Null, NoCalls, FALSE)
    /\ UNCHANGED <<handlers, globalHandlers, componentRegistry, nAttach>>

\* const u1 = registerAddressedHandler(id, h1, c1); registerAddressedHandler(id,
\* h2, c2); u1().  The call just made replaced the handler out.pre of an
\* earlier call for the same id; the function that earlier call returned is
\* invoked.  pre: the handler of the call whose function this is.
UnregisterAddressedEarlier ==
  /\ out.op = "registerAddressedHandler" /\ out.ret = "unregister"
  /\ out.pre # NoField
  /\ addressedHandlers' = unregisterAddressed(addressedHandlers, out.a)
  /\ out' = Outcome("unregisterAddressedEarlier", out.a, out.b, out.pre, Null, NoCalls, FALSE)
  /\ UNCHANGED <<handlers, globalHandlers, componentRegistry, nAttach>>

\* registerComponentInTree(componentId, parentId) by any caller: any id, any
\* parent, registered or not, the id itself included
Attach ==
  \E componentId \in FreeIds, parentId \in FreeIds \cup {Null} :
    /\ nAttach < MaxAttach
    /\ nAttach' = nAttach + 1
    /\ componentRegistry' = registerComponentInTree(componentRegistry, componentId, parentId)
    /\ out' = Outcome("registerComponentInTree", componentId, parentId, NoField,
                      componentId, NoCalls, FALSE)
    /\ UNCHANGED <<handlers, globalHandlers, addressedHandlers>>

\* registerComponentInTree('', parentId): the empty string as the id.  The
\* method has no test on its arguments; the entry is stored under the key ''
\* and the id is returned.
AttachEmptyId ==
  \E parentId \in FreeIds \cup {Null} :
    /\ nAttach < MaxAttach
    /\ nAttach' = nAttach + 1
    /\ componentRegistry' = registerComponentInTree(componentRegistry, "", parentId)
    /\ out' = Outcome("registerComponentInTree", "", parentId, NoField, "", NoCalls, FALSE)
    /\ UNCHANGED <<handlers, globalHandlers, addressedHandlers>>

\* registerComponentInTree as the supported idiom uses it: a new id, under
\* no parent or under a registered one
AttachNew ==
  \E componentId \in Ids, parentId \in Ids \cup {Null} :
    /\ ~Has(componentRegistry, componentId)
    /\ parentId # Null => Has(componentRegistry, parentId)
    /\ componentRegistry' = registerComponentInTree(componentRegistry, componentId, parentId)
    /\ out' = Outcome("registerComponentInTree", componentId, parentId, NoField,
                      componentId, NoCalls, FALSE)
    /\ UNCHANGED <<handlers, globalHandlers, addressedHandlers, nAttach>>

\* a detach that also drops the addressed handler of the id
DetachDroppingHandler ==
  \E componentId \in Ids :
    /\ componentRegistry' = unregisterComponent(componentRegistry, componentId)
    /\ addressedHandlers' = unregisterAddressed(addressedHandlers, componentId)
    /\ out' = Outcome("unregisterComponent", componentId, Null, NoField, Null, NoCalls, FALSE)
    /\ UNCHANGED <<handlers, globalHandlers, nAttach>>
\* unregisterComponent(componentId)
Detach ==
  \E componentId \in Ids :
    /\ componentRegistry' = unregisterComponent(componentRegistry, componentId)
    /\ out' = Outcome("unregisterComponent", componentId, Null, NoField, Null, NoCalls, FALSE)
    /\ UNCHANGED <<handlers, globalHandlers, addressedHandlers, nAttach>>

\* sendMessage(targetID, message, {}, senderId)
SendMessage ==
  \E targetID \in Ids, senderId \in {Null, "A"} :
    LET r == sendMessage(addressedHandlers, targetID, PING, NoField, NoField, NoField, senderId)
    IN /\ out' = Outcome("sendMessage", targetID, senderId, NoField, r.ret, r.calls, FALSE)
       /\ UNCHANGED <<stores, nAttach>>

\* broadcastToHandlers(message, {}, senderId, excludeIDs)
BroadcastToHandlers ==
  \E excludeIDs \in SUBSET {"A", "B"} :
    LET r == broadcastToHandlers(addressedHandlers, PING, Null, excludeIDs)
    IN /\ out' = Outcome("broadcastToHandlers", Null, excludeIDs, NoField, r.ret, r.calls, r.diverged)
       /\ UNCHANGED <<stores, nAttach>>

\* broadcast(fromComponentId, message)
Broadcast ==
  \E fromComponentId \in Ids :
    LET r == broadcast(componentRegistry, addressedHandlers, fromComponentId, PING)
    IN /\ out' = Outcome("broadcast", fromComponentId, Null, NoField, Returned(r), r.calls, r.diverged)
       /\ UNCHANGED <<stores, nAttach>>

\* broadcast(fromComponentId, message) on a bus where handlers may detach
\* their own node; pre: the registry the call started on
BroadcastLive ==
  \E fromComponentId \in Ids :
    LET r == broadcastLive(componentRegistry, addressedHandlers, fromComponentId, PING)
    IN /\ componentRegistry' = r.reg
       /\ out' = Outcome("broadcast", fromComponentId, Null, componentRegistry,
                         Returned(r), r.calls, r.diverged)
       /\ UNCHANGED <<handlers, globalHandlers, addressedHandlers, nAttach>>
\* broadcastUp(fromComponentId, message)
BroadcastUp ==
  \E fromComponentId \in Ids :
    LET r == broadcastUp(componentRegistry, addressedHandlers, fromComponentId, PING)
    IN /\ out' = Outcome("broadcastUp", fromComponentId, Null, NoField, Returned(r), r.calls, r.diverged)
       /\ UNCHANGED <<stores, nAttach>>

\* the number of entries the four stores hold
RECURSIVE ListsLen(_)
ListsLen(hs) == IF hs = <<>> THEN 0 ELSE Len(Head(hs).list) + ListsLen(Tail(hs))
Sizes ==
  <<ListsLen(handlers), Len(globalHandlers), Len(addressedHandlers), Len(componentRegistry)>>
\* a clear that does what its comment says, "Clear all handlers", and
\* leaves the component registry
ClearHandlers ==
  /\ handlers' = <<>>
  /\ globalHandlers' = <<>>
  /\ addressedHandlers' = <<>>
  /\ out' = Outcome("clear", Null, Null, Sizes, Null, NoCalls, FALSE)
  /\ UNCHANGED <<componentRegistry, nAttach>>
\* clear(); pre: the sizes of the stores it was called on
Clear ==
  /\ handlers' = <<>>
  /\ globalHandlers' = <<>>
  /\ addressedHandlers' = <<>>
  /\ componentRegistry' = <<>>
  /\ out' = Outcome("clear", Null, Null, Sizes, Null, NoCalls, FALSE)
  /\ UNCHANGED nAttach

\* _findRouteUp(sourceId, targetId), the first search of findRoute, with
\* its default arguments; pre: the components it expanded, in order
FindRouteUp ==
  \E sourceId \in Ids, targetId \in Ids :
    LET r == _findRouteUp(componentRegistry, sourceId, targetId, {}, <<>>)
    IN /\ out' = Outcome("_findRouteUp", sourceId, targetId, r.expanded, r.route,
                         NoCalls, FALSE)
       /\ UNCHANGED <<stores, nAttach>>

\* sendViaRoute(sourceId, findRoute(sourceId, targetId), message): the
\* route a component asks the bus for, used at once; pre: the route found
SendViaFoundRoute ==
  \E sourceId \in Ids, targetId \in Ids :
    LET found == findRoute(componentRegistry, sourceId, targetId)
        r == sendViaRoute(addressedHandlers, sourceId, found.route, PING)
    IN /\ out' = IF found.diverged
                 THEN Outcome("sendViaFoundRoute", sourceId, targetId, NoField, NoField,
                              NoCalls, TRUE)
                 ELSE Outcome("sendViaFoundRoute", sourceId, targetId, found.route,
                              r.ret, r.calls, FALSE)
       /\ UNCHANGED <<stores, nAttach>>
\* findRoute(sourceId, targetId)
FindRoute ==
  \E sourceId \in Ids, targetId \in Ids :
    LET r == findRoute(componentRegistry, sourceId, targetId)
    IN /\ out' = Outcome("findRoute", sourceId, targetId, NoField,
                      IF r.diverged THEN NoField ELSE r.route, NoCalls, r.diverged)
       /\ UNCHANGED <<stores, nAttach>>

\* registerHandler(command, handler, context)
RegisterHandler ==
  \E command \in Commands, handler \in Callbacks, context \in Contexts :
    /\ Has(handlers, command) => Len(Get(handlers, command).list) < MaxList
    /\ handlers' = registerHandler(handlers, command, HandlerInfo(handler, context))
    /\ out' = Outcome("registerHandler", command, HandlerInfo(handler, context), NoField,
                      "unregister", NoCalls, FALSE)
    /\ UNCHANGED <<globalHandlers, addressedHandlers, componentRegistry, nAttach>>

\* the function returned by registerHandler(command, handler, context): it
\* captures the three arguments.  For a pair that was never registered its
\* body removes nothing.
UnregisterHandler ==
  \E command \in Commands, handler \in Callbacks, context \in Contexts :
    /\ Has(handlers, command)
    /\ handlers' = unregisterHandler(handlers, command, HandlerInfo(handler, context))
    /\ out' = Outcome("unregisterHandler", command, HandlerInfo(handler, context), NoField,
                      Null, NoCalls, FALSE)
    /\ UNCHANGED <<globalHandlers, addressedHandlers, componentRegistry, nAttach>>

\* registerGlobalHandler(handler, context)
RegisterGlobalHandler ==
  \E handler \in Callbacks, context \in Contexts :
    /\ Len(globalHandlers) < MaxGlobal
    /\ globalHandlers' = registerGlobalHandler(globalHandlers, HandlerInfo(handler, context))
    /\ out' = Outcome("registerGlobalHandler", Null, HandlerInfo(handler, context), NoField,
                      "unregister", NoCalls, FALSE)
    /\ UNCHANGED <<handlers, addressedHandlers, componentRegistry, nAttach>>

\* the function returned by registerGlobalHandler(handler, context)
UnregisterGlobalHandler ==
  \E handler \in Callbacks, context \in Contexts :
    /\ globalHandlers # <<>>
    /\ globalHandlers' = unregisterGlobalHandler(globalHandlers, HandlerInfo(handler, context))
    /\ out' = Outcome("unregisterGlobalHandler", Null, HandlerInfo(handler, context), NoField,
                      Null, NoCalls, FALSE)
    /\ UNCHANGED <<handlers, addressedHandlers, componentRegistry, nAttach>>

\* const u = registerHandler(command, handler, context); u(); u(); ...
\* The function returned by the registerHandler call just made is invoked,
\* and invoked again; pre counts its invocations.
UnregisterHandlerReturned ==
  /\ out.op \in {"registerHandler", "unregisterHandlerReturned"}
  /\ out.op = "unregisterHandlerReturned" => out.pre < MaxInvoke
  /\ handlers' = unregisterHandler(handlers, out.a, out.b)
  /\ out' = Outcome("unregisterHandlerReturned", out.a, out.b,
                    IF out.op = "registerHandler" THEN 1 ELSE out.pre + 1,
                    Null, NoCalls, FALSE)
  /\ UNCHANGED <<globalHandlers, addressedHandlers, componentRegistry, nAttach>>

\* const u = registerGlobalHandler(handler, context); u(); u(); ...
UnregisterGlobalHandlerReturned ==
  /\ out.op \in {"registerGlobalHandler", "unregisterGlobalHandlerReturned"}
  /\ out.op = "unregisterGlobalHandlerReturned" => out.pre < MaxInvoke
  /\ globalHandlers' = unregisterGlobalHandler(globalHandlers, out.b)
  /\ out' = Outcome("unregisterGlobalHandlerReturned", Null, out.b,
                    IF out.op = "registerGlobalHandler" THEN 1 ELSE out.pre + 1,
                    Null, NoCalls, FALSE)
  /\ UNCHANGED <<handlers, addressedHandlers, componentRegistry, nAttach>>

\* a command is dispatched to the command-keyed and global handlers
DispatchCommand ==
  \E command \in Commands :
    LET r == dispatchCommand(handlers, globalHandlers, command)
    IN /\ out' = Outcome("dispatchCommand", command, Null, NoField, r.ret, r.calls, FALSE)
       /\ UNCHANGED <<stores, nAttach>>

\* sendDown(fromComponentId, message)
SendDown ==
  \E fromComponentId \in Ids :
    LET r == sendDown(componentRegistry, addressedHandlers, fromComponentId, PING, MaxDepth)
    IN /\ out' = Outcome("sendDown", fromComponentId, Null, NoField, Returned(r), r.calls, r.diverged)
       /\ UNCHANGED <<stores, nAttach>>

\* the arrays of at most n ids
RECURSIVE IdArrays(_)
IdArrays(n) ==
  IF n = 0 THEN {<<>>}
  ELSE IdArrays(n - 1) \cup {Append(a, id) : a \in IdArrays(n - 1), id \in FreeIds}

\* sendUp(fromComponentId, targetComponentIds, message), the targets given
\* as an array or as a string of ids joined by ':'
SendUpTo(arrays) ==
  \E fromComponentId \in {"A"}, ids \in arrays, asString \in BOOLEAN :
    LET targetComponentIds == IF asString THEN IdString(Join(ids)) ELSE IdArray(ids)
        r == sendUp(addressedHandlers, fromComponentId, targetComponentIds, PING)
    IN /\ out' = Outcome("sendUp", fromComponentId, targetComponentIds, NoField,
                         r.ret, r.calls, FALSE)
       /\ UNCHANGED <<stores, nAttach>>

SendUp == SendUpTo(IdArrays(MaxTargets))

\* sendViaRoute(fromComponentId, route, message): route is null, or the
\* ids of an array joined by ':' (the empty string for the empty array)
SendViaRouteOf(arrays) ==
  \E fromComponentId \in {"A"}, ids \in arrays, isNull \in BOOLEAN :
    /\ isNull => ids = <<>>
    /\ LET route == IF isNull THEN NullStr ELSE Str(Join(ids))
           r == sendViaRoute(addressedHandlers, fromComponentId, route, PING)
       IN out' = Outcome("sendViaRoute", fromComponentId, route, NoField,
                         r.ret, r.calls, FALSE)
    /\ UNCHANGED <<stores, nAttach>>
SendViaRoute == SendViaRouteOf(IdArrays(MaxRoute))

(***************************************************************************)
(* Spec: callers that attach and detach in any way, with a handler or not  *)
(* on each node, and the broadcasts over the resulting registry.           *)
(***************************************************************************)
Next ==
  \/ RegisterAddressedHandler(FreeIds, {"h1"}, TRUE)
  \/ Attach
  \/ Detach
  \/ Broadcast
  \/ BroadcastUp
  \/ Clear

Spec == Init /\ [][Next]_vars

(***************************************************************************)
(* SpecTree: callers that attach each id once, under no parent or under a  *)
(* registered one; every registry they build is a forest.                  *)
(***************************************************************************)
NextTree ==
  \/ RegisterAddressedHandler(Ids, {"h1"}, TRUE)
  \/ AttachNew
  \/ Broadcast
  \/ BroadcastUp
  \/ Clear

SpecTree == Init /\ [][NextTree]_vars

(***************************************************************************)
(* SpecRoute: the same callers, computing routes.                          *)
(***************************************************************************)
NextRoute ==
  \/ AttachNew
  \/ FindRoute
  \/ Clear

SpecRoute == Init /\ [][NextRoute]_vars

(***************************************************************************)
(* SpecAddr: the addressed handlers and the sends that are by address      *)
(* alone.                                                                  *)
(***************************************************************************)
NextAddr ==
  \/ RegisterAddressedHandler(Ids, HandlerInfos, FALSE)
  \/ UnregisterAddressedHandler
  \/ SendMessage
  \/ BroadcastToHandlers
  \/ Clear

SpecAddr == Init /\ [][NextAddr]_vars

(***************************************************************************)
(* SpecCmd: the command-keyed and global handlers.                         *)
(***************************************************************************)
NextCmd ==
  \/ RegisterHandler
  \/ UnregisterHandler
  \/ RegisterGlobalHandler
  \/ UnregisterGlobalHandler
  \/ DispatchCommand
  \/ Clear

SpecCmd == Init /\ [][NextCmd]_vars

(***************************************************************************)
(* SpecDown: trees as in SpecTree, and the send toward the root.           *)
(***************************************************************************)
NextDown ==
  \/ RegisterAddressedHandler(Ids, {"h1"}, TRUE)
  \/ AttachNew
  \/ SendDown
  \/ Clear

SpecDown == Init /\ [][NextDown]_vars

(***************************************************************************)
(* SpecSend: the sends to listed targets, which go by address alone.       *)
(***************************************************************************)
NextSend ==
  \/ RegisterAddressedHandler(Ids, {"h1"}, TRUE)
  \/ UnregisterAddressedHandler
  \/ SendUp
  \/ SendViaRoute
  \/ Clear

SpecSend == Init /\ [][NextSend]_vars

(***************************************************************************)
(* SpecClear: callers that fill the four stores, up to MaxFill entries in  *)
(* all, and clear the bus.                                                 *)
(***************************************************************************)
Fill == Sizes[1] + Sizes[2] + Sizes[3] + Sizes[4]
NextClear ==
  \/ Fill < MaxFill /\ RegisterHandler
  \/ Fill < MaxFill /\ RegisterGlobalHandler
  \/ Fill < MaxFill /\ RegisterAddressedHandler(Ids, HandlerInfos, FALSE)
  \/ Fill < MaxFill /\ AttachNew
  \/ Clear

SpecClear == Init /\ [][NextClear]_vars

(***************************************************************************)
(* SpecAttach: callers that attach and detach in any way, the empty        *)
(* string among the ids they attach.                                       *)
(***************************************************************************)
NextAttach ==
  \/ Attach
  \/ AttachEmptyId
  \/ Detach
  \/ Clear

SpecAttach == Init /\ [][NextAttach]_vars

(***************************************************************************)
(* SpecDispatch: the trees of the components A, B and C, and every send    *)
(* and broadcast on them, by these and by a sender that is not in the      *)
(* tree; sendUp with at most MaxListed targets and sendViaRoute with a     *)
(* route of at most MaxHops ids.                                           *)
(***************************************************************************)
NextDispatch ==
  \/ RegisterAddressedHandler(FreeIds, {"h1"}, TRUE)
  \/ AttachNew /\ out'.a \in FreeIds
  \/ SendMessage
  \/ SendDown
  \/ SendUpTo(IdArrays(MaxListed))
  \/ Broadcast
  \/ BroadcastUp
  \/ SendViaRouteOf(IdArrays(MaxHops))
  \/ Clear

SpecDispatch == Init /\ [][NextDispatch]_vars

(***************************************************************************)
(* SpecDetach: the components A, B and C attach as in SpecTree and         *)
(* detach, in any order (a detached parent leaves its children             *)
(* registered), with their addressed handlers and the direct send.         *)
(***************************************************************************)
NextDetach ==
  \/ RegisterAddressedHandler(FreeIds, {"h1"}, TRUE)
  \/ UnregisterAddressedHandler
  \/ AttachNew /\ out'.a \in FreeIds
  \/ Detach
  \/ SendMessage
  \/ Clear

SpecDetach == Init /\ [][NextDetach]_vars

(***************************************************************************)
(* SpecLifetime: the components A and B attach and detach, register and    *)
(* unregister their addressed handlers and are sent to directly, on a bus  *)
(* that may hold one command handler and one global handler.               *)
(***************************************************************************)
NextLifetime ==
  \/ handlers = <<>> /\ RegisterHandler
  \/ globalHandlers = <<>> /\ RegisterGlobalHandler
  \/ RegisterAddressedHandler({"A", "B"}, {"h1"}, TRUE)
  \/ UnregisterAddressedHandler
  \/ AttachNew /\ out'.a \in {"A", "B"}
  \/ Detach
  \/ SendMessage
  \/ Clear

SpecLifetime == Init /\ [][NextLifetime]_vars

(***************************************************************************)
(* SpecToken: callers that register command handlers or global handlers,   *)
(* the same pair more than once too, and invoke the functions returned:    *)
(* the one just returned, up to MaxInvoke times, or any earlier one.       *)
(***************************************************************************)
NextToken ==
  \/ globalHandlers = <<>> /\ RegisterHandler
  \/ UnregisterHandler
  \/ UnregisterHandlerReturned
  \/ handlers = <<>> /\ RegisterGlobalHandler
  \/ UnregisterGlobalHandler
  \/ UnregisterGlobalHandlerReturned
  \/ Clear

SpecToken == Init /\ [][NextToken]_vars

(***************************************************************************)
(* SpecReplace: the addressed handlers of A and B, registered again with   *)
(* the same or another handler, and the functions returned, the one of a   *)
(* replaced registration among them.                                      *)
(***************************************************************************)
NextReplace ==
  \/ RegisterAddressedHandler({"A", "B"}, HandlerInfos, FALSE)
  \/ UnregisterAddressedHandler
  \/ UnregisterAddressedEarlier
  \/ SendMessage
  \/ Clear

SpecReplace == Init /\ [][NextReplace]_vars

(***************************************************************************)
(* SpecSearch: callers that attach in any way, as in Spec, and the search  *)
(* through the children on the registries they leave.                      *)
(***************************************************************************)
NextSearch ==
  \/ Attach
  \/ Detach
  \/ FindRouteUp
  \/ Clear

SpecSearch == Init /\ [][NextSearch]_vars

(***************************************************************************)
(* SpecAll: the addressed handlers of A, B and C, registered and           *)
(* unregistered in any order, the components A and B attached or not,      *)
(* and the broadcast to every handler.                                     *)
(***************************************************************************)
NextAll ==
  \/ RegisterAddressedHandler(FreeIds, {"h1"}, FALSE)
  \/ UnregisterAddressedHandler
  \/ AttachNew /\ out'.a \in {"A", "B"}
  \/ Detach
  \/ BroadcastToHandlers
  \/ Clear

SpecAll == Init /\ [][NextAll]_vars

(***************************************************************************)
(* SpecLoop: callers that attach in any way, as in Spec, and detach, and   *)
(* the routes computed on the registries they leave.                       *)
(***************************************************************************)
NextLoop ==
  \/ Attach
  \/ Detach
  \/ FindRoute
  \/ Clear

SpecLoop == Init /\ [][NextLoop]_vars

(***************************************************************************)
(* SpecHang: callers that attach in any way and detach, the addressed      *)
(* handler of A, and the three sends that walk the registry.               *)
(***************************************************************************)
NextHang ==
  \/ RegisterAddressedHandler({"A"}, {"h1"}, TRUE)
  \/ Attach
  \/ Detach
  \/ Broadcast
  \/ SendDown
  \/ BroadcastUp
  \/ Clear

SpecHang == Init /\ [][NextHang]_vars

(***************************************************************************)
(* SpecTrip: the trees of the components A, B and C, with addressed        *)
(* handlers, and senders, in the tree or not, that send along the route    *)
(* the bus finds for them.                                                 *)
(***************************************************************************)
NextTrip ==
  \/ RegisterAddressedHandler(FreeIds, {"h1"}, TRUE)
  \/ AttachNew /\ out'.a \in FreeIds
  \/ SendViaFoundRoute
  \/ Clear

SpecTrip == Init /\ [][NextTrip]_vars

(***************************************************************************)
(* SpecOrphan: the components A, B and C attach as in SpecTree and detach  *)
(* in any order, keeping their addressed handlers, and the three sends     *)
(* that walk the registry.                                                 *)
(***************************************************************************)
NextOrphan ==
  \/ RegisterAddressedHandler(FreeIds, {"h1"}, TRUE)
  \/ AttachNew /\ out'.a \in FreeIds
  \/ Detach
  \/ Broadcast
  \/ SendDown
  \/ BroadcastUp
  \/ Clear

SpecOrphan == Init /\ [][NextOrphan]_vars

(***************************************************************************)
(* SpecStale: the components A, B and C attach as in SpecTree and detach   *)
(* in any order, and the routes computed on what is left.                  *)
(***************************************************************************)
NextStale ==
  \/ AttachNew /\ out'.a \in FreeIds
  \/ Detach
  \/ FindRoute
  \/ Clear

SpecStale == Init /\ [][NextStale]_vars

(***************************************************************************)
(* SpecLive: the trees of the components A, B and C, whose addressed       *)
(* handlers return at once or detach their own node, and the broadcast.    *)
(***************************************************************************)
NextLive ==
  \/ RegisterAddressedHandler(FreeIds, {"h1", DetachSelf}, TRUE)
  \/ AttachNew /\ out'.a \in FreeIds
  \/ BroadcastLive
  \/ Clear

SpecLive == Init /\ [][NextLive]_vars

(***************************************************************************)
(* The shape of the registry.                                              *)
(***************************************************************************)
Registered == Keys(componentRegistry)
ChildrenOf(id) == Get(componentRegistry, id).children
Parent(id) == Get(componentRegistry, id).parentId
\* the positions <<p, i>> at which id occurs in a children list
Occurrences(id) ==
  {<<p, i>> \in Registered \X (1..(2 * MaxAttach + Cardinality(Ids))) :
     i <= Len(ChildrenOf(p)) /\ ChildrenOf(p)[i] = id}
\* the ids reached from id by following parentId k times or fewer, k >= 1
RECURSIVE Above(_, _)
Above(id, k) ==
  IF k = 0 \/ ~(id \in Registered) \/ Parent(id) = Null THEN {}
  ELSE {Parent(id)} \cup Above(Parent(id), k - 1)
Ancestors(id) == Above(id, Cardinality(Ids) + 1)
\* a forest: parents and children lists agree, and no cycle
WellFormed ==
  /\ \A n \in Registered :
       /\ Parent(n) # Null =>
            Parent(n) \in Registered /\ Cardinality(Occurrences(n)) = 1
       /\ Parent(n) = Null => Occurrences(n) = {}
       /\ \A i \in 1..Len(ChildrenOf(n)) :
            ChildrenOf(n)[i] \in Registered /\ Parent(ChildrenOf(n)[i]) = n
       /\ ~(n \in Ancestors(n))
Roots == {n \in Registered : Parent(n) = Null}
SingleRootTree == WellFormed /\ Cardinality(Roots) = 1
HasHandler(id) == Has(addressedHandlers, id)
Targets(calls) == [i \in 1..Len(calls) |-> calls[i].target]

(***************************************************************************)
(* C1.  After any sequence of attach and detach calls, every registered    *)
(* node whose parentId is not null occurs in exactly one children list,    *)
(* exactly once, and no node is its own ancestor.                          *)
(* The code does not keep this: registerComponentInTree accepts any        *)
(* parent (the id itself, an unregistered id) and overwrites an entry      *)
(* whose id is still listed by its former parent.                          *)
(***************************************************************************)
C1_TreeInvariant ==
  \A n \in Registered :
    /\ Parent(n) # Null => Cardinality(Occurrences(n)) = 1
    /\ ~(n \in Ancestors(n))

(***************************************************************************)
(* C2.  Within one call of broadcast, broadcastUp or broadcastToHandlers,  *)
(* the addressed handler of each identity is invoked at most once.         *)
(* Not so once a children list holds an id twice (see C1).                 *)
(***************************************************************************)
C2_AtMostOnce ==
  out.op \in {"broadcast", "broadcastUp", "broadcastToHandlers"} =>
    \A i, j \in 1..Len(out.calls) :
      i # j => out.calls[i].target # out.calls[j].target

(***************************************************************************)
(* C3.  broadcast(fromId, msg) never invokes the addressed handler of      *)
(* fromId, whatever the registry and wherever fromId is in it.             *)
(***************************************************************************)
C3_NoSelfDelivery ==
  out.op = "broadcast" =>
    \A i \in 1..Len(out.calls) : out.calls[i].target # out.a

\* a broadcast sent by a node that has a handler and a parent, the root,
\* which received it
C3_Witness ==
  /\ out.op = "broadcast"
  /\ HasHandler(out.a)
  /\ out.a \in Registered
  /\ FindRootId(componentRegistry) # Null
  /\ Parent(out.a) = FindRootId(componentRegistry)
  /\ \E i \in 1..Len(ChildrenOf(Parent(out.a))) : ChildrenOf(Parent(out.a))[i] = out.a
  /\ ~out.diverged
  /\ out.ret >= 1

(***************************************************************************)
(* C4.  On a single-root tree, broadcast(fromId, msg) visits every node    *)
(* but fromId (the descendants of fromId included) in pre-order, children  *)
(* in attach order, invokes the handler of each visited node that has      *)
(* one, and returns the number of handlers invoked.                        *)
(* Pre-order is stated without the traversal: a node's place is the list   *)
(* of child positions on the way from the root to it, and pre-order is     *)
(* the lexicographic order of these lists, a prefix first.                 *)
(***************************************************************************)
RECURSIVE PlaceOf(_)
PlaceOf(id) ==
  IF Parent(id) = Null THEN <<>>
  ELSE Append(PlaceOf(Parent(id)), ArrayIndexOf(ChildrenOf(Parent(id)), id))
Before(p, q) ==
  \/ Len(p) < Len(q) /\ SubSeq(q, 1, Len(p)) = p
  \/ \E k \in 1..Len(p) :
       /\ k <= Len(q)
       /\ SubSeq(p, 1, k - 1) = SubSeq(q, 1, k - 1)
       /\ p[k] < q[k]
RECURSIVE PrunedBelow(_, _)
RECURSIVE PrunedFrom(_, _, _)
PrunedBelow(id, k) ==
  IF k = 0 \/ ~(id \in Registered) THEN <<>> ELSE PrunedFrom(ChildrenOf(id), 1, k)
PrunedFrom(children, i, k) ==
  IF i > Len(children) THEN <<>>
  ELSE (IF HasHandler(children[i])
        THEN <<children[i]>> \o PrunedBelow(children[i], k - 1)
        ELSE <<>>)
       \o PrunedFrom(children, i + 1, k)
C5_BroadcastToChildren ==
  (out.op = "broadcastUp" /\ WellFormed) =>
    /\ Targets(out.calls) = PrunedBelow(out.a, MaxDepth)
    /\ out.ret = Len(out.calls)

(***************************************************************************)
(* C6.  The handlers registered on one command key are invoked in          *)
(* registration order until one returns true; those registered after it    *)
(* are not invoked.                                                        *)
(* Registration order is the order of the list of the key: every           *)
(* registerHandler call puts its handler after those the key had.          *)
(***************************************************************************)
KeyedList(hs, command) == IF Has(hs, command) THEN Get(hs, command).list ELSE <<>>
OfKind(calls, kind) == SelectSeq(calls, LAMBDA c : c.kind = kind)
SameHandler(call, handlerInfo, command) ==
  /\ call.handler = handlerInfo.handler
  /\ call.context = handlerInfo.context
  /\ call.command = command
C6_InOrderUntilHandled ==
  out.op = "dispatchCommand" =>
    LET registered == KeyedList(handlers, out.a)
        invoked == OfKind(out.calls, "command")
    IN /\ Len(invoked) <= Len(registered)
       /\ \A i \in 1..Len(invoked) : SameHandler(invoked[i], registered[i], out.a)
       /\ \A i \in 1..(Len(invoked) - 1) : ~Returns(invoked[i].handler)
       /\ Len(invoked) < Len(registered) =>
            Len(invoked) >= 1 /\ Returns(invoked[Len(invoked)].handler)
C6_RegisteredLast ==
  out'.op = "registerHandler" =>
    KeyedList(handlers', out'.a) = Append(KeyedList(handlers, out'.a), out'.b)
C6_RegistrationOrder == [][C6_RegisteredLast]_vars /\ []C6_InOrderUntilHandled

\* three handlers on the key: the first declined, the second handled, the
\* third was not invoked
C6_Witness ==
  /\ out.op = "dispatchCommand"
  /\ Len(KeyedList(handlers, out.a)) = 3
  /\ Len(OfKind(out.calls, "command")) = 2
  /\ ~Returns(out.calls[1].handler)
  /\ Returns(out.calls[2].handler)

(***************************************************************************)
(* C7.  Every registered global handler is invoked for every dispatched    *)
(* command, whatever its key, in the order the global handlers were        *)
(* registered.                                                             *)
(***************************************************************************)
C7_AllGlobalInOrder ==
  out.op = "dispatchCommand" =>
    LET invoked == OfKind(out.calls, "global")
    IN /\ Len(invoked) = Len(globalHandlers)
       /\ \A i \in 1..Len(invoked) : SameHandler(invoked[i], globalHandlers[i], out.a)
C7_RegisteredLast ==
  out'.op = "registerGlobalHandler" => globalHandlers' = Append(globalHandlers, out'.b)
C7_GlobalOrder == [][C7_RegisteredLast]_vars /\ []C7_AllGlobalInOrder

\* two different global handlers, the first of which returns true, invoked
\* for a command that a handler of its key had handled
C7_Witness ==
  /\ out.op = "dispatchCommand"
  /\ out.ret = TRUE
  /\ Len(globalHandlers) = 2
  /\ Returns(globalHandlers[1].handler) /\ ~Returns(globalHandlers[2].handler)
  /\ Len(OfKind(out.calls, "global")) = 2

(***************************************************************************)
(* C8.  Addressed handlers are last-write-wins: a registration for an id   *)
(* that has a handler leaves the new handler as the only entry of the id,  *)
(* and a delivery to an id invokes the handler its entry holds.            *)
(***************************************************************************)
EntriesOf(id) ==
  SelectSeq(addressedHandlers, LAMBDA e : e.id = id)
C8_LastWriteWins ==
  /\ (out.op = "registerAddressedHandler" /\ out.ret # "Error") =>
       /\ Len(EntriesOf(out.a)) = 1
       /\ EntriesOf(out.a)[1].handler = out.b
  /\ out.op \in {"sendMessage", "broadcastToHandlers"} =>
       \A i \in 1..Len(out.calls) :
         /\ Len(EntriesOf(out.calls[i].target)) = 1
         /\ out.calls[i].handler = EntriesOf(out.calls[i].target)[1].handler

\* the second registration for an id, with another handler than the first
C8_Witness ==
  /\ out.op = "registerAddressedHandler"
  /\ out.pre = "h1"
  /\ out.b = "h2"
  /\ Get(addressedHandlers, out.a).handler = "h2"

(***************************************************************************)
(* C9.  sendMessage(target, type, payload, senderId) returns true exactly  *)
(* when target has an addressed handler, which it then invokes once with   *)
(* (type, payload, senderId); otherwise it returns false and invokes no    *)
(* handler.  It changes none of the stores.                                *)
(***************************************************************************)
C9_Delivery ==
  out.op = "sendMessage" =>
    /\ out.ret = HasHandler(out.a)
    /\ out.calls = IF HasHandler(out.a)
                   THEN <<Call(out.a, EntriesOf(out.a)[1].handler, PING,
                               NoField, NoField, NoField, out.b)>>
                   ELSE <<>>
C9_NoStateChange == out'.op = "sendMessage" => UNCHANGED stores
C9_SendMessage == [][C9_NoStateChange]_vars /\ []C9_Delivery

C9_Witness ==
  /\ out.op = "sendMessage"
  /\ out.ret = TRUE
  /\ Len(out.calls) = 1
  /\ out.b = "A"
  /\ Len(addressedHandlers) >= 2

(***************************************************************************)
(* C10.  When target is a proper descendant of source in a well-formed     *)
(* tree, findRoute(source, target) is the path from source to target,      *)
(* without source and with target (A -> B -> C: findRoute(A, C) = B:C).    *)
(* The path is stated from the parentId of the target upwards.             *)
(***************************************************************************)
RECURSIVE PathUpTo(_, _)
PathUpTo(id, top) == IF id = top THEN <<>> ELSE Append(PathUpTo(Parent(id), top), id)
\* the ids of a route string
RouteIds(str) == LET parts == Split(str.s) IN [i \in 1..Len(parts) |-> parts[i][1]]
C10_DescendantRoute ==
  (/\ out.op = "findRoute"
   /\ WellFormed
   /\ out.b \in Registered
   /\ out.a \in Ancestors(out.b)) =>
    /\ ~out.diverged
    /\ ~out.ret.isNull
    /\ RouteIds(out.ret) = PathUpTo(out.b, out.a)

\* the target is two levels below the source, under its second child
C10_Witness ==
  /\ out.op = "findRoute"
  /\ WellFormed
  /\ out.b \in Registered
  /\ out.a \in Ancestors(out.b)
  /\ Parent(out.b) # out.a
  /\ Len(ChildrenOf(out.a)) >= 2
  /\ ChildrenOf(out.a)[2] = Parent(out.b)
  /\ ~out.diverged
  /\ Len(RouteIds(out.ret)) = 2

(***************************************************************************)
(* C11.  When target is a proper ancestor of source, findRoute(source,     *)
(* target) is the route of target alone, however many levels lie between   *)
(* them (A -> B -> C: findRoute(C, A) = A).                                *)
(***************************************************************************)
C11_AncestorRoute ==
  (/\ out.op = "findRoute"
   /\ WellFormed
   /\ out.a \in Registered
   /\ out.b \in Ancestors(out.a)) =>
    /\ ~out.diverged
    /\ ~out.ret.isNull
    /\ RouteIds(out.ret) = <<out.b>>

\* the target is the grandparent of the source, or higher
C11_Witness ==
  /\ out.op = "findRoute"
  /\ WellFormed
  /\ out.a \in Registered
  /\ out.b \in Ancestors(out.a)
  /\ Parent(out.a) # out.b
  /\ ~out.diverged
  /\ out.ret = Str(Chars(out.b))

(***************************************************************************)
(* C12.  When source and target are in one tree and neither is an ancestor *)
(* of the other, findRoute(source, target) lists the ancestors of source   *)
(* up to and including the nearest common ancestor, then the nodes below   *)
(* that ancestor down to target, the common ancestor once and target last  *)
(* (A -> B, A -> C, B -> D: findRoute(D, C) passes B, then A, then C).     *)
(* The code puts source itself in front of that list: D:B:A:C.             *)
(***************************************************************************)
Reverse(s) == [i \in 1..Len(s) |-> s[Len(s) + 1 - i]]
CommonAncestors(a, b) == Ancestors(a) \cap Ancestors(b)
Nearest(a, b) ==
  CHOOSE n \in CommonAncestors(a, b) :
    \A m \in CommonAncestors(a, b) : m = n \/ m \in Ancestors(n)
Apart ==
  /\ out.op = "findRoute"
  /\ WellFormed
  /\ out.a \in Registered /\ out.b \in Registered
  /\ out.a # out.b
  /\ ~(out.a \in Ancestors(out.b)) /\ ~(out.b \in Ancestors(out.a))
  /\ CommonAncestors(out.a, out.b) # {}
\* source, its ancestors below the common ancestor, the common ancestor,
\* and the nodes below it down to target
ThroughNearest(a, b) ==
  Reverse(PathUpTo(a, Nearest(a, b))) \o <<Nearest(a, b)>> \o PathUpTo(b, Nearest(a, b))
\* C12 as stated: the route is the ancestors of source and the way down
C12_CommonAncestorRoute ==
  Apart =>
    /\ ~out.diverged
    /\ ~out.ret.isNull
    /\ RouteIds(out.ret) = Tail(ThroughNearest(out.a, out.b))
\* C12 as amended: the route is source itself, then the ancestors of source
\* up to and including the nearest common ancestor, then the nodes below
\* that ancestor down to target
C12_RouteFromSource ==
  Apart =>
    /\ ~out.diverged
    /\ ~out.ret.isNull
    /\ RouteIds(out.ret) = ThroughNearest(out.a, out.b)

\* the target is two levels below the common ancestor: a route of four ids
\* with two of them on the way down
C12_Witness ==
  /\ Apart
  /\ Parent(out.a) = Nearest(out.a, out.b)
  /\ Parent(out.b) # Nearest(out.a, out.b)
  /\ ~out.diverged
  /\ Len(RouteIds(out.ret)) = 4
  /\ RouteIds(out.ret)[1] = out.a
  /\ RouteIds(out.ret)[4] = out.b

(***************************************************************************)
(* C13.  findRoute(source, source) is the empty route, and findRoute(      *)
(* source, target) is null, with no error, when source and target are      *)
(* distinct and have no common ancestor: they are in disjoint trees, or    *)
(* one of them is not in the registry.                                     *)
(* A node counts among its own ancestors here, as in _getPathToRoot.       *)
(***************************************************************************)
SelfAndAncestors(id) == {id} \cup Ancestors(id)
Disjoint(a, b) == SelfAndAncestors(a) \cap SelfAndAncestors(b) = {}
C13_EmptyOrNull ==
  out.op = "findRoute" =>
    /\ out.a = out.b => ~out.diverged /\ out.ret = Str(<<>>)
    /\ (out.a # out.b /\ WellFormed /\ Disjoint(out.a, out.b)) =>
         ~out.diverged /\ out.ret = NullStr

\* source is inside one tree, target is the root of another tree that has
\* a child
C13_Witness ==
  /\ out.op = "findRoute"
  /\ out.a # out.b
  /\ out.a \in Registered /\ out.b \in Registered
  /\ Parent(out.a) # Null
  /\ ChildrenOf(out.b) # <<>>
  /\ Disjoint(out.a, out.b)
  /\ ~out.diverged
  /\ out.ret = NullStr

(***************************************************************************)
(* C14.  sendDown(fromId, msg) delivers to the parent of fromId, then to   *)
(* each next ancestor, nearest first, and stops at the first ancestor      *)
(* that has no addressed handler: no ancestor above it is invoked.  It     *)
(* returns true exactly when the parent accepted, and false when fromId    *)
(* is not registered or is a root.                                         *)
(***************************************************************************)
\* the ancestors of id, nearest first
RECURSIVE Chain(_, _)
Chain(id, k) ==
  IF k = 0 \/ ~(id \in Registered) \/ Parent(id) = Null THEN <<>>
  ELSE <<Parent(id)>> \o Chain(Parent(id), k - 1)
AncestorChain(id) == Chain(id, Cardinality(Ids) + 1)
\* the longest prefix of ids of which every one has a handler
RECURSIVE Accepting(_)
Accepting(ids) ==
  IF ids = <<>> \/ ~HasHandler(Head(ids)) THEN <<>>
  ELSE <<Head(ids)>> \o Accepting(Tail(ids))
C14_SendTowardRoot ==
  (out.op = "sendDown" /\ WellFormed) =>
    LET chain == AncestorChain(out.a)
    IN /\ ~out.diverged
       /\ Targets(out.calls) = Accepting(chain)
       /\ out.ret = (chain # <<>> /\ HasHandler(chain[1]))

\* three ancestors: the parent accepted, the grandparent has no handler,
\* and the root, which has one, was not invoked
C14_Witness ==
  /\ out.op = "sendDown"
  /\ WellFormed
  /\ Len(AncestorChain(out.a)) = 3
  /\ HasHandler(AncestorChain(out.a)[1])
  /\ ~HasHandler(AncestorChain(out.a)[2])
  /\ HasHandler(AncestorChain(out.a)[3])
  /\ out.ret = TRUE
  /\ Targets(out.calls) = <<Parent(out.a)>>

(***************************************************************************)
(* C15.  broadcastUp(fromId, msg), the ancestors variant, attempts         *)
(* delivery to every ancestor of fromId up to the root, going on past      *)
(* the ancestors that have no addressed handler, never delivers to fromId  *)
(* itself, and returns the number of ancestors whose handler was invoked.  *)
(***************************************************************************)
C15_BroadcastToAncestors ==
  (out.op = "broadcastUp" /\ WellFormed) =>
    /\ ~out.diverged
    /\ Targets(out.calls) = SelectSeq(AncestorChain(out.a), HasHandler)
    /\ \A i \in 1..Len(out.calls) : out.calls[i].target # out.a
    /\ out.ret = Len(out.calls)

\* three ancestors, the middle one without a handler: the parent and the
\* root were invoked; the sender has a handler too
C15_Witness ==
  /\ out.op = "broadcastUp"
  /\ WellFormed
  /\ HasHandler(out.a)
  /\ Len(AncestorChain(out.a)) = 3
  /\ HasHandler(AncestorChain(out.a)[1])
  /\ ~HasHandler(AncestorChain(out.a)[2])
  /\ HasHandler(AncestorChain(out.a)[3])
  /\ out.ret = 2
  /\ Targets(out.calls) = <<AncestorChain(out.a)[1], AncestorChain(out.a)[3]>>

(***************************************************************************)
(* C16.  sendUp(fromId, targets, msg) attempts delivery to every listed    *)
(* target, in list order, whatever happened with the other targets, and    *)
(* returns true exactly when at least one target had an addressed          *)
(* handler.                                                                *)
(***************************************************************************)
Listed(targetComponentIds) ==
  IF targetComponentIds.isString
  THEN LET parts == Split(targetComponentIds.v)
       IN [i \in 1..Len(parts) |-> IF parts[i] = <<>> THEN "" ELSE parts[i][1]]
  ELSE targetComponentIds.v
C16_SendTowardLeaves ==
  out.op = "sendUp" =>
    /\ Targets(out.calls) = SelectSeq(Listed(out.b), HasHandler)
    /\ out.ret = (\E i \in 1..Len(Listed(out.b)) : HasHandler(Listed(out.b)[i]))

\* three targets in an array: the first has no handler, the second and the
\* third were both invoked
C16_Witness ==
  /\ out.op = "sendUp"
  /\ ~out.b.isString
  /\ Len(out.b.v) = 3
  /\ ~HasHandler(out.b.v[1])
  /\ HasHandler(out.b.v[2]) /\ HasHandler(out.b.v[3])
  /\ out.b.v[2] # out.b.v[3]
  /\ Targets(out.calls) = <<out.b.v[2], out.b.v[3]>>
  /\ out.ret = TRUE

(***************************************************************************)
(* C17.  sendViaRoute(fromId, route, msg) invokes only the addressed       *)
(* handler of the last identity of the route, with the data stamped with   *)
(* the route and with direction "route" when the route has more than one   *)
(* element, "direct" when it has one; it returns whether that last         *)
(* identity had a handler.                                                 *)
(***************************************************************************)
C17_SendViaRoute ==
  (out.op = "sendViaRoute" /\ Truthy(out.b)) =>
    LET ids == RouteIds(out.b)
        last == ids[Len(ids)]
    IN /\ out.ret = HasHandler(last)
       /\ out.calls =
            IF HasHandler(last)
            THEN <<Call(last, EntriesOf(last)[1].handler, PING, out.a,
                        IF Len(ids) > 1 THEN "route" ELSE "direct", out.b.s, out.a)>>
            ELSE <<>>

\* a route of three ids that all have handlers: the last alone was invoked
C17_Witness ==
  /\ out.op = "sendViaRoute"
  /\ Truthy(out.b)
  /\ Len(RouteIds(out.b)) = 3
  /\ \A i \in 1..3 : HasHandler(RouteIds(out.b)[i])
  /\ RouteIds(out.b)[1] # RouteIds(out.b)[3]
  /\ RouteIds(out.b)[2] # RouteIds(out.b)[3]
  /\ out.ret = TRUE
  /\ Len(out.calls) = 1
  /\ out.calls[1].target = RouteIds(out.b)[3]
  /\ out.calls[1].direction = "route"

(***************************************************************************)
(* C18.  After clear(), from any state, the four stores (command           *)
(* handlers, global handlers, addressed handlers, component registry) are  *)
(* empty, as the constructor leaves them, so that every operation, which   *)
(* reads nothing else, behaves as on a new bus; and a clear() that         *)
(* follows a clear() leaves the state of the first.                        *)
(***************************************************************************)
C18_AsConstructed ==
  out.op = "clear" =>
    /\ handlers = <<>>
    /\ globalHandlers = <<>>
    /\ addressedHandlers = <<>>
    /\ componentRegistry = <<>>
C18_Idempotent ==
  (out.op = "clear" /\ out'.op = "clear") => stores' = stores
C18_Clear == [][C18_Idempotent]_vars /\ []C18_AsConstructed

\* a clear of a bus whose four stores all held something
C18_Witness ==
  /\ out.op = "clear"
  /\ \A i \in 1..4 : out.pre[i] >= 1
  /\ stores = <<<<>>, <<>>, <<>>, <<>>>>

(***************************************************************************)
(* C19.  registerAddressedHandler with an empty or null id fails with an   *)
(* error and leaves the addressed handlers, and every other store,         *)
(* unchanged: a handler registered before is still the one delivered to.   *)
(***************************************************************************)
C19_Throws ==
  (out.op = "registerAddressedHandler" /\ out.a \in {Null, ""}) =>
    /\ out.ret = "Error"
    /\ ~HasHandler(out.a)
C19_LeavesStores ==
  (out'.op = "registerAddressedHandler" /\ out'.a \in {Null, ""}) => UNCHANGED stores
C19_InvalidArgument == [][C19_LeavesStores]_vars /\ []C19_Throws

\* a registration for the empty string refused by a bus that has handlers
C19_Witness ==
  /\ out.op = "registerAddressedHandler"
  /\ out.a = ""
  /\ out.b = "h2"
  /\ out.ret = "Error"
  /\ Len(addressedHandlers) >= 2
  /\ \A i \in 1..Len(addressedHandlers) : addressedHandlers[i].handler = "h1"

(***************************************************************************)
(* C20.  registerComponentInTree with a missing or empty identity signals  *)
(* an error and creates no entry in the registry.                          *)
(* The code has no such test: it stores the entry and returns the id.      *)
(***************************************************************************)
C20_AttachInvalidArgument ==
  (out.op = "registerComponentInTree" /\ out.a \in {Null, ""}) =>
    /\ out.ret = "Error"
    /\ ~Has(componentRegistry, out.a)

(***************************************************************************)
(* C21.  A delivery miss is never an error: in sendMessage, sendDown,      *)
(* sendUp, broadcastUp, broadcast and sendViaRoute a target with no        *)
(* addressed handler, or a sender that is not in the tree, raises          *)
(* nothing; the miss shows as false or as a lower count only, and the      *)
(* call leaves the component tree and the three handler stores as they     *)
(* were.                                                                   *)
(***************************************************************************)
BooleanSends == {"sendMessage", "sendDown", "sendUp", "sendViaRoute"}
CountingSends == {"broadcast", "broadcastUp"}
C21_MissIsFalseOrLess ==
  /\ out.op \in BooleanSends =>
       /\ ~out.diverged
       /\ out.ret = (out.calls # <<>>)
  /\ out.op \in CountingSends =>
       /\ ~out.diverged
       /\ out.ret = Len(out.calls)
  /\ out.op \in BooleanSends \cup CountingSends =>
       \A i \in 1..Len(out.calls) : HasHandler(out.calls[i].target)
C21_SendLeavesStores ==
  out'.op \in BooleanSends \cup CountingSends => UNCHANGED stores
C21_MissIsNoError == [][C21_SendLeavesStores]_vars /\ []C21_MissIsFalseOrLess

\* a broadcast by a sender that is not in the tree, over three components
\* of which one alone has a handler
C21_Witness ==
  /\ out.op = "broadcast"
  /\ ~(out.a \in Registered)
  /\ SingleRootTree
  /\ Cardinality(Registered) = 3
  /\ Cardinality({n \in Registered : HasHandler(n)}) = 1
  /\ ~out.diverged
  /\ out.ret = 1

(***************************************************************************)
(* C22.  unregisterComponent(id) of a registered id takes id out of its    *)
(* parent's children list and deletes the entry of id; every other entry   *)
(* keeps its parentId and its children, the descendants of id included.    *)
(* For an id that is not registered nothing changes.                       *)
(***************************************************************************)
Without(s, x) == SelectSeq(s, LAMBDA e : e # x)
C22_DetachStep ==
  out'.op = "unregisterComponent" =>
    LET n == out'.a
    IN /\ UNCHANGED <<handlers, globalHandlers, addressedHandlers>>
       /\ IF ~(n \in Registered) THEN UNCHANGED componentRegistry
          ELSE /\ Keys(componentRegistry') = Registered \ {n}
               /\ \A m \in Registered \ {n} :
                    /\ Get(componentRegistry', m).parentId = Parent(m)
                    /\ Get(componentRegistry', m).children =
                         IF m = Parent(n) THEN Without(ChildrenOf(m), n)
                         ELSE ChildrenOf(m)
C22_DetachFrame == [][C22_DetachStep]_vars
\* B was detached from under A while it had the child C: C is still
\* registered, with the parent B that is gone, and A lists no child
C22_Witness ==
  /\ out.op = "unregisterComponent" /\ out.a = "B"
  /\ Registered = {"A", "C"}
  /\ Parent("C") = "B" /\ Parent("A") = Null /\ ChildrenOf("A") = <<>>

(***************************************************************************)
(* C23.  A handler outlives the tree node of its id: unregisterComponent   *)
(* leaves the command, global and addressed handlers as they were, and     *)
(* sendMessage(id, ...) invokes the addressed handler of id, once,         *)
(* whether id is in the registry or not, exactly as long as the handler    *)
(* has not been removed by its unregister function or by clear().          *)
(***************************************************************************)
C23_DetachKeepsHandlers ==
  out'.op = "unregisterComponent" =>
    UNCHANGED <<handlers, globalHandlers, addressedHandlers>>
C23_SendByAddressAlone ==
  out.op = "sendMessage" =>
    IF HasHandler(out.a)
    THEN /\ out.ret = TRUE
         /\ Len(out.calls) = 1
         /\ out.calls[1].target = out.a
         /\ out.calls[1].handler = Get(addressedHandlers, out.a).handler
    ELSE out.ret = FALSE /\ out.calls = <<>>
C23_HandlerOutlivesNode ==
  [][C23_DetachKeepsHandlers]_vars /\ []C23_SendByAddressAlone
\* A was detached while it had the child B and a handler; the bus holds a
\* command handler and a global handler; a send to A is delivered
C23_Witness ==
  /\ out.op = "sendMessage" /\ out.a = "A" /\ out.ret = TRUE
  /\ Registered = {"B"} /\ Parent("B") = "A"
  /\ handlers # <<>> /\ globalHandlers # <<>>

(***************************************************************************)
(* C24.  After any registerHandler calls and invocations of the functions  *)
(* they returned, the list of each command is the registrations not yet    *)
(* unregistered, in registration order, and no command has an empty list.  *)
(* In particular, when the function returned by the registration made      *)
(* last is invoked, the list of its command is again what it was before    *)
(* that registration: all its entries but the last, in their order.        *)
(* The code removes the first entry with the same handler and context,     *)
(* which is an earlier registration when the pair was registered before.   *)
(***************************************************************************)
AllButLast(s) == SubSeq(s, 1, Len(s) - 1)
C24_LastRegistrationRemoved ==
  (out'.op = "unregisterHandlerReturned" /\ out'.pre = 1) =>
    KeyedList(handlers', out'.a) = AllButLast(KeyedList(handlers, out'.a))
C24_NoEmptyList == \A k \in 1..Len(handlers) : handlers[k].list # <<>>
C24_StoredAreOutstanding ==
  [][C24_LastRegistrationRemoved]_vars /\ []C24_NoEmptyList

(***************************************************************************)
(* C25.  The function returned by registerHandler or registerGlobalHandler *)
(* removes at most one registration, however often it is invoked: from     *)
(* its second invocation on it changes nothing.                            *)
(* The code searches the list again on every invocation and removes        *)
(* another registration of the same handler and context when there is one. *)
(***************************************************************************)
C25_LaterInvocationsRemoveNothing ==
  /\ (out'.op = "unregisterHandlerReturned" /\ out'.pre > 1) => UNCHANGED handlers
  /\ (out'.op = "unregisterGlobalHandlerReturned" /\ out'.pre > 1) =>
       UNCHANGED globalHandlers
C25_OneShot == [][C25_LaterInvocationsRemoveNothing]_vars

(***************************************************************************)
(* C26.  The function returned by registerAddressedHandler removes the     *)
(* entry of its own call only: once the id has been registered again with  *)
(* a second handler, invoking the function of the first call leaves the    *)
(* second handler registered, and a sendMessage to the id reaches it.      *)
(* The code deletes whatever entry the id has.                             *)
(***************************************************************************)
C26_UnregisterRemovesOwnEntry ==
  (out.op = "unregisterAddressedEarlier" /\ out.pre # out.b) =>
    /\ HasHandler(out.a)
    /\ Get(addressedHandlers, out.a).handler = out.b
    /\ sendMessage(addressedHandlers, out.a, PING, NoField, NoField, NoField, Null).ret

(***************************************************************************)
(* C27.  The search of findRoute through the children returns, a route or  *)
(* null, on a registry that is not a tree as well: where children lists    *)
(* form a cycle or hold an id more than once, the children of no           *)
(* component are gone through more than once.                              *)
(***************************************************************************)
NoRepeat(s) == \A i, j \in 1..Len(s) : s[i] = s[j] => i = j
C27_SearchExpandsOnce ==
  out.op = "_findRouteUp" =>
    /\ ~out.diverged
    /\ out.ret.isNull \/ (out.ret.s # <<>> /\ out.ret.s[Len(out.ret.s)] = out.b)
    /\ NoRepeat(out.pre)
    /\ \A i \in 1..Len(out.pre) : out.pre[i] \in Registered
\* A lists itself and lists B twice; the search from A for an id that is
\* not there goes through the children of A and of B once each
C27_Witness ==
  /\ out.op = "_findRouteUp" /\ out.a = "A" /\ out.ret.isNull
  /\ "A" \in Registered /\ ChildrenOf("A") = <<"A", "B", "B">>
  /\ out.pre = <<"A", "B">>

(***************************************************************************)
(* C28.  broadcastToHandlers(message, data, senderId, excludeIDs) invokes  *)
(* the addressed handler of every id that is not in excludeIDs, once, and  *)
(* of no id that is in it, in the order in which the ids were first        *)
(* registered, whatever the component tree holds, and returns the number   *)
(* of handlers invoked.  The order of first registration is the order of   *)
(* the Map: a new id goes last, an id registered again keeps its place,    *)
(* an id unregistered leaves the others in their order.                    *)
(***************************************************************************)
IdsOf(store) == [i \in 1..Len(store) |-> store[i].id]
C28_MapKeepsFirstOrder ==
  /\ (out'.op = "registerAddressedHandler" /\ out'.ret = "unregister") =>
       IdsOf(addressedHandlers') =
         IF HasHandler(out'.a) THEN IdsOf(addressedHandlers)
         ELSE Append(IdsOf(addressedHandlers), out'.a)
  /\ out'.op = "unregisterAddressed" =>
       IdsOf(addressedHandlers') = Without(IdsOf(addressedHandlers), out'.a)
  /\ out'.op \in {"registerComponentInTree", "unregisterComponent", "broadcastToHandlers"} =>
       UNCHANGED addressedHandlers
C28_EveryHandlerOnce ==
  out.op = "broadcastToHandlers" =>
    /\ ~out.diverged
    /\ Targets(out.calls) =
         SelectSeq(IdsOf(addressedHandlers), LAMBDA id : ~(id \in out.b))
    /\ \A i \in 1..Len(out.calls) :
         out.calls[i].handler = Get(addressedHandlers, out.calls[i].target).handler
    /\ NoRepeat(Targets(out.calls))
    /\ out.ret = Len(out.calls)
C28_BroadcastToHandlers == [][C28_MapKeepsFirstOrder]_vars /\ []C28_EveryHandlerOnce
\* C, A and B registered in this order, A excluded, B in the tree and C not
C28_Witness ==
  /\ out.op = "broadcastToHandlers" /\ out.b = {"A"}
  /\ IdsOf(addressedHandlers) = <<"C", "A", "B">>
  /\ Targets(out.calls) = <<"C", "B">> /\ out.ret = 2
  /\ "B" \in Registered /\ ~("C" \in Registered)

(***************************************************************************)
(* C29.  For the tree in which B and C are the children of A and D is the  *)
(* child of B, findRoute(D, C) is the route of A and C.                    *)
(* The code returns 'D:B:A:C': the leg from the source to the common       *)
(* ancestor, the source included, then the leg to the target (see C12).    *)
(***************************************************************************)
TreeABCD ==
  /\ Registered = {"A", "B", "C", "D"} /\ WellFormed
  /\ Parent("A") = Null /\ Parent("B") = "A" /\ Parent("C") = "A" /\ Parent("D") = "B"
RouteDC == TreeABCD /\ out.op = "findRoute" /\ out.a = "D" /\ out.b = "C"
C29_RouteIsAC ==
  RouteDC => ~out.diverged /\ ~out.ret.isNull /\ RouteIds(out.ret) = <<"A", "C">>
\* C29 as amended: the route is D, B, A, C, the string 'D:B:A:C'
C29_RouteIsDBAC ==
  RouteDC =>
    /\ ~out.diverged /\ ~out.ret.isNull
    /\ RouteIds(out.ret) = <<"D", "B", "A", "C">>
    /\ out.ret.s = <<"D", ":", "B", ":", "A", ":", "C">>
\* the route was computed on the tree in which C was attached before B
C29_Witness == RouteDC /\ ChildrenOf("A") = <<"C", "B">> /\ ~out.diverged

(***************************************************************************)
(* C30.  registerComponentInTree(componentId, parentId) stores the entry    *)
(* {parentId, children: []} for componentId, puts componentId at the end   *)
(* of the children of parentId exactly when parentId is given and already  *)
(* registered, changes no other entry and returns componentId; a children  *)
(* list so holds the children in the order they were attached.             *)
(* The code tests for the parent after it has stored the entry, so an id   *)
(* given as its own parent is put in its own new list, registered before   *)
(* or not (the self-parent of C1).  For every other pair of arguments the  *)
(* step is as stated: C30_AttachFrameApart.                                *)
(***************************************************************************)
AttachedAsStated(n, p) ==
  /\ out'.ret = n /\ ~out'.diverged
  /\ UNCHANGED <<handlers, globalHandlers, addressedHandlers>>
  /\ Keys(componentRegistry') = Registered \cup {n}
  /\ Get(componentRegistry', n).parentId = p
  /\ Get(componentRegistry', n).children = <<>>
  /\ \A m \in Registered \ {n} :
       /\ Get(componentRegistry', m).parentId = Parent(m)
       /\ Get(componentRegistry', m).children =
            IF m = p THEN Append(ChildrenOf(m), n) ELSE ChildrenOf(m)
C30_AttachStep ==
  out'.op = "registerComponentInTree" => AttachedAsStated(out'.a, out'.b)
C30_AttachFrame == [][C30_AttachStep]_vars
C30_AttachStepApart ==
  (out'.op = "registerComponentInTree" /\ out'.a # out'.b) =>
    AttachedAsStated(out'.a, out'.b)
C30_AttachFrameApart == [][C30_AttachStepApart]_vars

(***************************************************************************)
(* C31.  findRoute(source, target) returns, for every source and target,   *)
(* in every state that attach and detach calls lead to, a component        *)
(* attached under itself or under a later descendant of its own included.  *)
(* Only _findRouteUp has a visited set: _findRouteDown and _getPathToRoot  *)
(* follow parentId and, on a cycle that misses the target, never return.   *)
(***************************************************************************)
C31_FindRouteReturns == out.op = "findRoute" => ~out.diverged

(***************************************************************************)
(* C32.  broadcast, sendDown and broadcastUp return in every state that    *)
(* attach, detach and handler registration calls lead to, the handlers     *)
(* returning without calling the bus.                                      *)
(* None of the three keeps a visited set: on a component that is its own   *)
(* parent, or is listed among its own children, each of them goes round    *)
(* without end.                                                            *)
(***************************************************************************)
WalkingSends == {"broadcast", "sendDown", "broadcastUp"}
C32_WalksReturn == out.op \in WalkingSends => ~out.diverged

(***************************************************************************)
(* C33.  For distinct source and target, a route that findRoute(source,    *)
(* target) returns ends with target, so that sendViaRoute(source, that     *)
(* route, msg) invokes the addressed handler of target and no other, and   *)
(* returns true exactly when target has an addressed handler.              *)
(***************************************************************************)
C33_RoundTrip ==
  (/\ out.op = "sendViaFoundRoute"
   /\ out.a # out.b
   /\ ~out.diverged
   /\ ~out.pre.isNull) =>
    LET ids == RouteIds(out.pre)
    IN /\ ids[Len(ids)] = out.b
       /\ out.ret = HasHandler(out.b)
       /\ Targets(out.calls) = IF HasHandler(out.b) THEN <<out.b>> ELSE <<>>
       /\ \A i \in 1..Len(out.calls) :
            out.calls[i].handler = Get(addressedHandlers, out.b).handler
\* a route of three ids through the common ancestor, every id on it with a
\* handler: the target alone was invoked
C33_Witness ==
  /\ out.op = "sendViaFoundRoute" /\ ~out.diverged /\ ~out.pre.isNull
  /\ out.a # out.b
  /\ Len(RouteIds(out.pre)) = 3
  /\ RouteIds(out.pre)[1] = out.a /\ out.a \in Registered
  /\ RouteIds(out.pre)[2] = Parent(out.a)
  /\ \A i \in 1..3 : HasHandler(RouteIds(out.pre)[i])
  /\ out.ret = TRUE /\ Targets(out.calls) = <<out.b>>

(***************************************************************************)
(* C34.  The sends that walk the tree deliver to components of the tree    *)
(* only: sendDown, broadcastUp and broadcast never invoke the addressed    *)
(* handler of an id that is not in the registry at the time of the call.   *)
(* sendDown and broadcastUp send to the parentId of a registered           *)
(* component without looking the parent up: a child left behind by the     *)
(* detach of its parent still reaches the handler of that parent.          *)
(***************************************************************************)
C34_OnlyRegisteredReceive ==
  out.op \in WalkingSends =>
    \A i \in 1..Len(out.calls) : out.calls[i].target \in Registered

\* the part of C34 that holds: broadcast goes by the children lists, which
\* hold registered ids only where every attach is of a new id
C34_BroadcastInTree ==
  out.op = "broadcast" =>
    \A i \in 1..Len(out.calls) : out.calls[i].target \in Registered

(***************************************************************************)
(* C35.  Every id of a route that findRoute returns is in the registry at  *)
(* the time of the call; so, once p is detached, no route between the      *)
(* components that were its children goes through p, and none ends at p.   *)
(* The code follows the parentId that the children of p keep: it finds p   *)
(* as their parent (a route ending at p) and as their common ancestor (a   *)
(* route through p).                                                       *)
(***************************************************************************)
C35_RouteOfRegistered ==
  (out.op = "findRoute" /\ ~out.diverged /\ Truthy(out.ret)) =>
    \A i \in 1..Len(RouteIds(out.ret)) : RouteIds(out.ret)[i] \in Registered

(***************************************************************************)
(* C36.  When, during a broadcast, the addressed handler of a child        *)
(* detaches its own node while the children of its parent are being gone   *)
(* through, every other child of that parent that has an addressed         *)
(* handler still receives the message in that call.                        *)
(* The detach splices the array that forEach is walking: the children      *)
(* after the detached one move down one place and the next one is passed   *)
(* over.                                                                   *)
(***************************************************************************)
\* pre is the registry the call started on
ChildrenBefore(p) == Get(out.pre, p).children
Invoked(id) == \E i \in 1..Len(out.calls) : out.calls[i].target = id
C36_SiblingsStillReceive ==
  (out.op = "broadcast" /\ ~out.diverged) =>
    \A p \in Keys(out.pre) :
      \A i, j \in 1..Len(ChildrenBefore(p)) :
        LET c == ChildrenBefore(p)[i]
            d == ChildrenBefore(p)[j]
        IN (/\ c # d
            /\ Invoked(c) /\ Get(addressedHandlers, c).handler = DetachSelf
            /\ HasHandler(d) /\ d # out.a) => Invoked(d)

(***************************************************************************)
(* C37.  broadcast starts from the component registered first among those  *)
(* whose parentId is null: with several such roots, components under the   *)
(* first one alone can receive the message; with none, broadcast returns   *)
(* 0 and invokes no handler, which is the case after the only root has     *)
(* been detached, its children keeping their parentId.                     *)
(* The order of registration is the order of the keys of componentRegistry:*)
(* a new id goes last, and a detach leaves the others in their order.      *)
(***************************************************************************)
FirstRoot ==
  CHOOSE r \in Roots :
    \A q \in Roots : IndexOf(componentRegistry, r) <= IndexOf(componentRegistry, q)
Under(r) == {r} \cup {n \in Registered : r \in Ancestors(n)}
C37_KeysInRegistrationOrder ==
  /\ (out'.op = "registerComponentInTree" /\ ~(out'.a \in Registered)) =>
       IdsOf(componentRegistry') = Append(IdsOf(componentRegistry), out'.a)
  /\ out'.op = "unregisterComponent" =>
       IdsOf(componentRegistry') = Without(IdsOf(componentRegistry), out'.a)
C37_FromFirstRoot ==
  out.op = "broadcast" =>
    /\ ~out.diverged
    /\ out.ret = Len(out.calls)
    /\ IF Roots = {} THEN out.calls = <<>>
       ELSE \A i \in 1..Len(out.calls) : out.calls[i].target \in Under(FirstRoot)
C37_BroadcastRoot == [][C37_KeysInRegistrationOrder]_vars /\ []C37_FromFirstRoot
\* two roots, both with a handler, B registered before A after A had been
\* detached and attached again: the handler of B alone was invoked
C37_Witness ==
  /\ out.op = "broadcast" /\ out.a = "C"
  /\ Roots = {"A", "B"} /\ HasHandler("A") /\ HasHandler("B")
  /\ IdsOf(componentRegistry) = <<"B", "A">>
  /\ Targets(out.calls) = <<"B">> /\ out.ret = 1

(***************************************************************************)
(* C38.  Every handler invoked by one sendDown(fromId, msg) receives a     *)
(* copy of msg stamped with direction 'down' and with from, as senderId,   *)
(* the component one hop below the receiver: fromId for the first hop, the *)
(* previous receiver for the next ones.  Every handler invoked by          *)
(* broadcastUp(fromId, msg) receives a copy stamped with from and senderId *)
(* fromId, and no direction.  msg itself is not written: every hop is      *)
(* stamped from the message as the caller gave it, type included.          *)
(***************************************************************************)
HopBelow(i) == IF i = 1 THEN out.a ELSE out.calls[i - 1].target
C38_DownStamp ==
  out.op = "sendDown" =>
    \A i \in 1..Len(out.calls) :
      /\ out.calls[i].direction = "down"
      /\ out.calls[i].from = HopBelow(i)
      /\ out.calls[i].senderId = HopBelow(i)
      /\ Parent(HopBelow(i)) = out.calls[i].target
      /\ out.calls[i].type = PING
      /\ out.calls[i].route = NoField
C38_UpStamp ==
  out.op = "broadcastUp" =>
    \A i \in 1..Len(out.calls) :
      /\ out.calls[i].from = out.a
      /\ out.calls[i].senderId = out.a
      /\ out.calls[i].direction = NoField
      /\ out.calls[i].type = PING
      /\ out.calls[i].route = NoField
C38_Stamps == C38_DownStamp /\ C38_UpStamp
\* C under B under A, a handler on each: sendDown from C reached B, then A
C38_Witness ==
  /\ out.op = "sendDown" /\ out.a = "C" /\ ~out.diverged
  /\ Registered = {"A", "B", "C"}
  /\ Parent("C") = "B" /\ Parent("B") = "A" /\ Parent("A") = Null
  /\ Targets(out.calls) = <<"B", "A">>
  /\ out.calls[2].from = "B" /\ out.calls[2].senderId = "B"
\* the same chain: broadcastUp from C reached B, then A, both stamped C
C38_WitnessUp ==
  /\ out.op = "broadcastUp" /\ out.a = "C" /\ ~out.diverged
  /\ Registered = {"A", "B", "C"}
  /\ Parent("C") = "B" /\ Parent("B") = "A" /\ Parent("A") = Null
  /\ Targets(out.calls) = <<"B", "A">>
  /\ out.calls[2].from = "C" /\ out.calls[2].senderId = "C"

=============================================================================
